---- MODULE Spec2Model ----
(***************************************************************************)
(* Access control and vote integrity of ALX Polly: the server actions      *)
(* createPoll, updatePoll, deletePoll and submitVote (poll-actions.ts)     *)
(* running against the tables, constraints, triggers and row level         *)
(* security policies of the database setup script.                         *)
(* With them: isAdmin and the AdminPage component, which calls deletePoll,  *)
(* and the request gate updateSession (middleware.ts) with its rate limit  *)
(* map and origin check.                                                   *)
(*                                                                         *)
(* A server action is an async function: every `await` on the database is  *)
(* a point where other requests run.  Each action below is the code        *)
(* between two such points; the database statement it ends with is         *)
(* executed atomically by the store.                                       *)
(*                                                                         *)
(* A JavaScript string is modelled as the sequence of its characters       *)
(* (one-character strings).                                                *)
(***************************************************************************)
EXTENDS Integers, Sequences, FiniteSets, TLC

\* ------------------------------------------------------------------------
\* Program constants

MAX_QUESTION_LENGTH == 500

MAX_OPTION_LENGTH == 200

MAX_OPTIONS == 10

MIN_OPTIONS == 2

\* submitVote: new Date(Date.now() - 60000)
VoteWindowMs == 60000

\* submitVote: recentVotes.length >= 5
VoteRateMax == 5

\* pollId.length < 10
MinPollIdLength == 10

\* length of a UUID in text form, the id the store generates
UuidLength == 36

\* ------------------------------------------------------------------------
\* Bounds of the model

\* polls that can be created in one behaviour of Spec
MaxPolls == 1

\* clock ticks in one behaviour of SpecRate
MaxTicks == 3

\* polls that exist in the initial state of SpecRate
RatePolls == 6

\* votes the voter of SpecRate has cast before, each on a poll of its own
PriorVotes == 4

\* clock readings of SpecLimit after the first, one window apart
MaxLimitTicks == 2

\* requests a key of SpecLimit sends in one window beyond maxRequests
MaxExtra == 2

\* polls that exist in the initial state of SpecAdmin
AdminPolls == 2

\* requests the key of SpecGate has sent in its window before
GatePrior == 98

\* polls that can be created in one behaviour of SpecForms
MaxFormPolls == 1

\* ------------------------------------------------------------------------
\* Values

Null == "null"

Users == {"u1", "u2"}

Procs == {"r1", "r2"}

\* one clock tick: half of the vote window
TickMs == VoteWindowMs \div 2

MaxNow == MaxTicks * TickMs

\* ------------------------------------------------------------------------
\* Strings as sequences of characters

\* String.prototype.repeat, for a string of one character
Repeat(ch, n) == [i \in 1..n |-> ch]

IsWhitespace(ch) == ch \in {" ", "\t", "\n"}

RECURSIVE TrimStart(_)
TrimStart(s) ==
  IF s # <<>> /\ IsWhitespace(Head(s)) THEN TrimStart(Tail(s)) ELSE s

RECURSIVE TrimEnd(_)
TrimEnd(s) ==
  IF s # <<>> /\ IsWhitespace(s[Len(s)])
  THEN TrimEnd(SubSeq(s, 1, Len(s) - 1))
  ELSE s

\* String.prototype.trim
Trim(s) == TrimEnd(TrimStart(s))

UpperCase == <<"A", "B", "C", "D", "E", "F", "G", "H", "I", "J", "K", "L", "M",
               "N", "O", "P", "Q", "R", "S", "T", "U", "V", "W", "X", "Y", "Z">>

LowerCase == <<"a", "b", "c", "d", "e", "f", "g", "h", "i", "j", "k", "l", "m",
               "n", "o", "p", "q", "r", "s", "t", "u", "v", "w", "x", "y", "z">>

LowerChar(ch) ==
  IF \E i \in 1..26 : UpperCase[i] = ch
  THEN LowerCase[CHOOSE i \in 1..26 : UpperCase[i] = ch]
  ELSE ch

\* String.prototype.toLowerCase
ToLowerCase(s) == [i \in 1..Len(s) |-> LowerChar(s[i])]

\* pat occurs in s at position i
MatchesAt(s, pat, i) ==
  /\ i + Len(pat) - 1 <= Len(s)
  /\ \A j \in 1..Len(pat) : s[i + j - 1] = pat[j]

Contains(s, pat) == \E i \in 1..Len(s) : MatchesAt(s, pat, i)

\* mutation: the pattern without its i flag
SuspiciousPattern_CaseSensitive(s) ==
  \/ Contains(s, <<"<", "s", "c", "r", "i", "p", "t">>)
  \/ Contains(s, <<"j", "a", "v", "a", "s", "c", "r", "i", "p", "t", ":">>)
  \/ Contains(s, <<"d", "a", "t", "a", ":">>)

\* /<script|javascript:|data:/i.test(s)
SuspiciousPattern(s) ==
  LET l == ToLowerCase(s) IN
    \/ Contains(l, <<"<", "s", "c", "r", "i", "p", "t">>)
    \/ Contains(l, <<"j", "a", "v", "a", "s", "c", "r", "i", "p", "t", ":">>)
    \/ Contains(l, <<"d", "a", "t", "a", ":">>)

\* position of the first ">" at or after i, 0 when there is none
RECURSIVE FirstGt(_, _)
FirstGt(s, i) ==
  IF i > Len(s) THEN 0
  ELSE IF s[i] = ">" THEN i
  ELSE FirstGt(s, i + 1)

\* input.replace(/<[^>]*>/g, ""), scanning from position i
RECURSIVE StripTagsFrom(_, _)
StripTagsFrom(s, i) ==
  IF i > Len(s) THEN <<>>
  ELSE IF s[i] = "<" /\ FirstGt(s, i + 1) # 0
       THEN StripTagsFrom(s, FirstGt(s, i + 1) + 1)
       ELSE <<s[i]>> \o StripTagsFrom(s, i + 1)

\* a string without "<" has no match and is returned as it is
StripTags(s) ==
  IF \A i \in 1..Len(s) : s[i] # "<" THEN s ELSE StripTagsFrom(s, 1)

\* the entities table of sanitizeInput
Entity(ch) ==
  CASE ch = "<" -> <<"&", "l", "t", ";">>
    [] ch = ">" -> <<"&", "g", "t", ";">>
    [] ch = "\"" -> <<"&", "q", "u", "o", "t", ";">>
    [] ch = "'" -> <<"&", "#", "x", "2", "7", ";">>
    [] ch = "&" -> <<"&", "a", "m", "p", ";">>
    [] OTHER -> <<ch>>

\* .replace(/[<>'"&]/g, (char) => entities[char] || char)
\* (each character is replaced on its own: the two halves of the string are
\* escaped apart and joined)
RECURSIVE EscapeEntities(_)
EscapeEntities(s) ==
  IF s = <<>> THEN <<>>
  ELSE IF Len(s) = 1 THEN Entity(s[1])
  ELSE LET half == Len(s) \div 2 IN
         EscapeEntities(SubSeq(s, 1, half))
           \o EscapeEntities(SubSeq(s, half + 1, Len(s)))

sanitizeInput(input) == Trim(EscapeEntities(StripTags(input)))

\* rawOptions.map((option) => sanitizeInput(option))
SanitizeAll(options) == [i \in 1..Len(options) |-> sanitizeInput(options[i])]

\* formData.getAll("options").filter(Boolean): empty strings are dropped
RECURSIVE FilterBoolean(_)
FilterBoolean(options) ==
  IF options = <<>> THEN <<>>
  ELSE IF Head(options) = <<>> THEN FilterBoolean(Tail(options))
  ELSE <<Head(options)>> \o FilterBoolean(Tail(options))

\* the per-option rules of validatePollInput, for option i
OptionError(options, i) ==
  LET option == options[i] IN
    IF option = <<>> \/ Len(Trim(option)) = 0
    THEN "Option " \o ToString(i) \o " cannot be empty"
    ELSE IF Len(option) > MAX_OPTION_LENGTH
    THEN "Option " \o ToString(i) \o " must be "
           \o ToString(MAX_OPTION_LENGTH) \o " characters or less"
    ELSE IF SuspiciousPattern(option)
    THEN "Option " \o ToString(i) \o " contains invalid content"
    ELSE Null

\* the for loop of validatePollInput, from option i on
RECURSIVE OptionsLoop(_, _)
OptionsLoop(options, i) ==
  IF i > Len(options) THEN Null
  ELSE IF OptionError(options, i) # Null THEN OptionError(options, i)
  ELSE OptionsLoop(options, i + 1)

\* mutation: the options are compared as they are
uniqueOptions_AsGiven(options) == {options[i] : i \in 1..Len(options)}

\* new Set(options.map((opt) => opt.toLowerCase().trim()))
uniqueOptions(options) == {Trim(ToLowerCase(options[i])) : i \in 1..Len(options)}

validatePollInput(question, options) ==
  IF question = <<>> \/ Len(Trim(question)) = 0
  THEN "Question is required"
  ELSE IF Len(question) > MAX_QUESTION_LENGTH
  THEN "Question must be " \o ToString(MAX_QUESTION_LENGTH) \o " characters or less"
  ELSE IF SuspiciousPattern(question)
  THEN "Question contains invalid content"
  ELSE IF Len(options) < MIN_OPTIONS
  THEN "At least " \o ToString(MIN_OPTIONS) \o " options are required"
  ELSE IF Len(options) > MAX_OPTIONS
  THEN "Maximum " \o ToString(MAX_OPTIONS) \o " options allowed"
  ELSE IF OptionsLoop(options, 1) # Null
  THEN OptionsLoop(options, 1)
  ELSE IF Cardinality(uniqueOptions(options)) # Len(options)
  THEN "All options must be unique"
  ELSE Null

\* ------------------------------------------------------------------------
\* State

VARIABLES
  polls,        \* table polls: id -> [user_id, question, options]
  votes,        \* table votes: rows [poll_id, user_id, option_index, created_at]
  user_roles,   \* table user_roles: rows [user_id, role, granted_by]
  audit_logs,   \* table audit_logs: rows appended by log_audit_event
  nextPollId,   \* the id gen_random_uuid() gives the next poll (never reused)
  now,          \* the clock: Date.now() and the store's NOW(), in ms
  calls,        \* per concurrent request: the server action it runs and its locals
  rateLimit,    \* middleware: Map key -> {count, timestamp}
  response,     \* middleware: the response to the latest request
  seen,         \* per key: the requests it has sent in its current window
  adminPage     \* per client: the state of its AdminPage component

vars ==
  <<polls, votes, user_roles, audit_logs, nextPollId, now, calls,
    rateLimit, response, seen, adminPage>>

\* typeof pollId === "string" && pollId.length: id 0 stands for a malformed,
\* short id, every other id has the text form of a UUID
PollIdLength(id) == IF id = 0 THEN 3 ELSE UuidLength

\* an optionIndex argument: a JavaScript value, a number given as twice its
\* value (so that 0.5 is twice = 1) or a string
NumberArg(twice) == [type |-> "number", twice |-> twice]

StringArg == [type |-> "string", twice |-> 0]

\* Number.isInteger(optionIndex)
IsInteger(arg) == arg.twice % 2 = 0

\* the integer an integral number argument stands for
IntegerValue(arg) == arg.twice \div 2

Q1 == <<"Q", "?">>

PollData(user_id, options) == [user_id |-> user_id, options |-> options]

NoPollData == PollData(Null, <<>>)

Idle ==
  [op |-> "none", pc |-> "idle", user |-> Null, userError |-> FALSE,
   pollId |-> 0, optionIndex |-> NumberArg(0), question |-> <<>>,
   options |-> <<>>, pollData |-> NoPollData, result |-> Null,
   roleError |-> FALSE, hasAdminAccess |-> FALSE, caller |-> Null,
   closure |-> {}, email |-> <<>>, name |-> <<>>, password |-> <<>>]

\* the request returns {error: msg}
Return(c, msg) == [calls EXCEPT ![c].pc = "done", ![c].result = msg]

Goto(c, pc) == [calls EXCEPT ![c].pc = pc]

\* supabase.auth.getUser(): the session's user or none, or a failure of the
\* auth backend
GetUserOutcomes ==
  {[user |-> u, error |-> FALSE] : u \in Users \cup {Null}}
    \cup {[user |-> Null, error |-> TRUE]}

AuthErrorMessage == "auth backend: fetch failed"

\* ------------------------------------------------------------------------
\* The store: constraints, triggers and policies of the setup script

\* role = 'admin' row of the user: EXISTS (SELECT 1 FROM user_roles ur WHERE
\* ur.user_id = auth.uid() AND ur.role = 'admin')
HasAdminRow(uid) ==
  \E ur \in user_roles : ur.user_id = uid /\ ur.role = "admin"

\* a row of user_roles; id and granted_at have defaults and are not read
RoleRow(user_id, role, granted_by) ==
  [user_id |-> user_id, role |-> role, granted_by |-> granted_by]

\* mutation: every user may insert role rows
user_roles_insert_policy_Anyone(uid) == uid # Null

\* POLICY "Admins can grant roles" ON user_roles FOR INSERT WITH CHECK
\* (EXISTS (... ur.user_id = auth.uid() AND ur.role = 'admin'))
user_roles_insert_policy(uid) == HasAdminRow(uid)

\* user_roles: UNIQUE(user_id, role)
user_roles_unique(row) ==
  \A ur \in user_roles : ~ (ur.user_id = row.user_id /\ ur.role = row.role)

\* supabase.from("user_roles").select("role").eq("user_id", uid)
\* .eq("role", "admin").single(): data is the row, or null when there is no
\* row or the query fails
RoleQuery(uid, fails) ==
  IF fails \/ ~ HasAdminRow(uid) THEN Null ELSE "admin"

\* polls: CHECK (length(question) <= 500), CHECK (jsonb_array_length(options)
\* >= 2 AND <= 10), user_id NOT NULL
polls_check(row) ==
  /\ row.user_id # Null
  /\ Len(row.question) <= 500
  /\ Len(row.options) >= 2
  /\ Len(row.options) <= 10

\* mutation: only admins may insert polls
polls_insert_policy_AdminOnly(uid, row) ==
  uid # Null /\ uid = row.user_id /\ HasAdminRow(uid)

\* POLICY "Users can create their own polls": WITH CHECK (auth.uid() = user_id)
polls_insert_policy(uid, row) == uid # Null /\ uid = row.user_id

\* POLICY "Users can update their own polls": USING (auth.uid() = user_id)
polls_update_policy(uid, id) == uid # Null /\ uid = polls[id].user_id

\* mutation: the policy lets only the owner delete
polls_delete_policy_OwnerOnly(uid, id) ==
  uid # Null /\ uid = polls[id].user_id

\* POLICY "Users can delete their own polls OR admins can delete any poll"
polls_delete_policy(uid, id) ==
  uid # Null /\ (uid = polls[id].user_id \/ HasAdminRow(uid))

\* POLICY "Authenticated users can vote": WITH CHECK (auth.uid() IS NOT NULL)
votes_insert_policy(uid) == uid # Null

\* votes.option_index: CHECK (option_index >= 0)
votes_check(row) == row.option_index >= 0

\* votes.poll_id REFERENCES polls(id), NOT NULL
votes_poll_fk(row) == row.poll_id \in DOMAIN polls

\* mutation: the trigger is not installed
validate_vote_option_index_Absent(row) == TRUE

\* trigger validate_vote_option_index, BEFORE INSERT ON votes
validate_vote_option_index(row) ==
  \E id \in DOMAIN polls :
    id = row.poll_id /\ row.option_index < Len(polls[id].options)

\* mutation: the index is not unique
idx_votes_unique_user_poll_Absent(row) == TRUE

\* UNIQUE INDEX idx_votes_unique_user_poll ON votes(poll_id, user_id)
\* WHERE user_id IS NOT NULL
idx_votes_unique_user_poll(row) ==
  row.user_id # Null =>
    ~ \E v \in votes : v.poll_id = row.poll_id /\ v.user_id = row.user_id

\* INSERT INTO votes as auth.uid() = uid: TRUE when the row is stored
VoteInsertOk(uid, row) ==
  /\ votes_insert_policy(uid)
  /\ validate_vote_option_index(row)
  /\ votes_check(row)
  /\ votes_poll_fk(row)
  /\ idx_votes_unique_user_poll(row)

\* FUNCTION log_audit_event(p_action, p_resource_type, p_resource_id): the
\* audit log after the call by auth.uid() = uid.  No server action, no
\* component and no trigger calls the function.
log_audit_event(uid, p_action, p_resource_type, p_resource_id) ==
  Append(audit_logs,
         [user_id |-> uid, action |-> p_action,
          resource_type |-> p_resource_type, resource_id |-> p_resource_id])

\* mutation: the votes of a deleted poll stay
CascadeVotes_None(id) == votes

\* votes.poll_id ... ON DELETE CASCADE
CascadeVotes(id) == {v \in votes : v.poll_id # id}

\* ------------------------------------------------------------------------
\* submitVote(pollId, optionIndex)

\* the "Validate pollId format" condition
InvalidPollId(pollId) == PollIdLength(pollId) < MinPollIdLength

\* the "Validate optionIndex" condition
InvalidOptionIndex(optionIndex) ==
  \/ optionIndex.type # "number"
  \/ optionIndex.twice < 0
  \/ ~ IsInteger(optionIndex)

\* mutation: the bounds check is off by one
OptionOutOfBounds_OffByOne(optionIndex, options) ==
  IntegerValue(optionIndex) > Len(options)

\* optionIndex >= pollData.options.length
OptionOutOfBounds(optionIndex, options) ==
  IntegerValue(optionIndex) >= Len(options)

\* mutation: the branch for anonymous users is missing
HasUserId_Always(user) == TRUE

\* if (user?.id)
HasUserId(user) == user # Null

\* votes: select id where poll_id = pollId and user_id = user.id
VotesOf(pollId, user) ==
  {v \in votes : v.poll_id = pollId /\ v.user_id = user}

\* mutation: the existing vote is not looked for
existingVote_Never(pollId, user) == FALSE

\* voteQuery.single(): data only when exactly one row matches
existingVote(pollId, user) == Cardinality(VotesOf(pollId, user)) = 1

\* votes: select id where user_id = user.id and created_at >= oneMinuteAgo
recentVotes(user, oneMinuteAgo) ==
  {v \in votes : v.user_id = user /\ v.created_at >= oneMinuteAgo}

\* mutation: the rate check is off by one
TooManyVotes_OffByOne(user, t) ==
  Cardinality({v \in votes : v.user_id = user /\ v.created_at >= t - VoteWindowMs})
    > VoteRateMax

\* recentVotes && recentVotes.length >= 5
TooManyVotes(user, t) ==
  Cardinality(recentVotes(user, t - VoteWindowMs)) >= VoteRateMax

\* the row submitVote inserts; created_at DEFAULT NOW()
VoteRow(pollId, user, optionIndex) ==
  [poll_id |-> pollId, user_id |-> user,
   option_index |-> IntegerValue(optionIndex), created_at |-> now]

\* the call, up to the first query: getUser and the argument checks
submitVote(c, g, pollId, optionIndex) ==
  /\ calls[c].pc = "idle"
  /\ LET call == [Idle EXCEPT !.op = "submitVote", !.user = g.user,
                              !.userError = g.error, !.pollId = pollId,
                              !.optionIndex = optionIndex]
     IN calls' =
          [calls EXCEPT ![c] =
             IF InvalidPollId(pollId)
             THEN [call EXCEPT !.pc = "done", !.result = "Invalid poll ID"]
             ELSE IF InvalidOptionIndex(optionIndex)
             THEN [call EXCEPT !.pc = "done",
                               !.result = "Invalid option selection"]
             ELSE [call EXCEPT !.pc = "sv_poll"]]
  /\ UNCHANGED <<polls, votes, user_roles, audit_logs, nextPollId, now,
                 rateLimit, response, seen, adminPage>>

\* mutation: the session is checked before the poll is looked up
submitVote_poll_LoginFirst(c) ==
  /\ calls[c].pc = "sv_poll"
  /\ LET call == calls[c] IN
       calls' =
         IF call.user = Null
         THEN Return(c, "Please log in to vote")
         ELSE IF call.pollId \notin DOMAIN polls
         THEN Return(c, "Poll not found")
         ELSE IF IntegerValue(call.optionIndex) >= Len(polls[call.pollId].options)
         THEN Return(c, "Invalid option selected")
         ELSE [calls EXCEPT ![c].pc = "sv_existing",
                            ![c].pollData =
                               PollData(Null, polls[call.pollId].options)]
  /\ UNCHANGED <<polls, votes, user_roles, audit_logs, nextPollId, now,
                 rateLimit, response, seen, adminPage>>

\* "Get poll data to validate option bounds", the bounds check and the
\* branch on user?.id
submitVote_poll(c) ==
  /\ calls[c].pc = "sv_poll"
  /\ LET call == calls[c] IN
       calls' =
         IF call.pollId \notin DOMAIN polls
         THEN Return(c, "Poll not found")
         ELSE IF OptionOutOfBounds(call.optionIndex, polls[call.pollId].options)
         THEN Return(c, "Invalid option selected")
         ELSE IF ~ HasUserId(call.user)
         THEN Return(c, "Please log in to vote")
         ELSE [calls EXCEPT ![c].pc = "sv_existing",
                            ![c].pollData =
                               PollData(Null, polls[call.pollId].options)]
  /\ UNCHANGED <<polls, votes, user_roles, audit_logs, nextPollId, now,
                 rateLimit, response, seen, adminPage>>

\* "Check for existing vote from this user/session"
submitVote_existing(c) ==
  /\ calls[c].pc = "sv_existing"
  /\ calls' =
       IF existingVote(calls[c].pollId, calls[c].user)
       THEN Return(c, "You have already voted on this poll")
       ELSE Goto(c, "sv_rate")
  /\ UNCHANGED <<polls, votes, user_roles, audit_logs, nextPollId, now,
                 rateLimit, response, seen, adminPage>>

\* "Rate limiting check (simple timestamp-based)"
submitVote_rate(c) ==
  /\ calls[c].pc = "sv_rate"
  /\ calls' =
       IF TooManyVotes(calls[c].user, now)
       THEN Return(c, "Too many votes. Please wait a moment.")
       ELSE Goto(c, "sv_insert")
  /\ UNCHANGED <<polls, votes, user_roles, audit_logs, nextPollId, now,
                 rateLimit, response, seen, adminPage>>

\* "Insert the vote"
submitVote_insert(c) ==
  /\ calls[c].pc = "sv_insert"
  /\ LET row == VoteRow(calls[c].pollId, calls[c].user, calls[c].optionIndex)
     IN IF VoteInsertOk(calls[c].user, row)
        THEN /\ votes' = votes \cup {row}
             /\ calls' = Return(c, Null)
        ELSE /\ votes' = votes
             /\ calls' = Return(c, "Failed to submit vote. Please try again.")
  /\ UNCHANGED <<polls, user_roles, audit_logs, nextPollId, now,
                 rateLimit, response, seen, adminPage>>

\* ------------------------------------------------------------------------
\* deletePoll(id)

\* the call up to the first query of the store: getUser and its two checks
deletePoll_call(g, id, caller) ==
  LET call == [Idle EXCEPT !.op = "deletePoll", !.user = g.user,
                           !.userError = g.error, !.pollId = id,
                           !.caller = caller]
  IN IF g.error
     THEN [call EXCEPT !.pc = "done", !.result = "Authentication failed"]
     ELSE IF g.user = Null
     THEN [call EXCEPT !.pc = "done",
             !.result = "You must be logged in to delete a poll"]
     ELSE [call EXCEPT !.pc = "dp_poll"]

deletePoll(c, g, id) ==
  /\ calls[c].pc = "idle"
  /\ calls' = [calls EXCEPT ![c] = deletePoll_call(g, id, Null)]
  /\ UNCHANGED <<polls, votes, user_roles, audit_logs, nextPollId, now,
                 rateLimit, response, seen, adminPage>>

\* mutation: the role is queried for the owner too
deletePoll_poll_RoleAlways(c) ==
  /\ calls[c].pc = "dp_poll"
  /\ LET call == calls[c] IN
       calls' =
         IF call.pollId \notin DOMAIN polls
         THEN Return(c, "Poll not found")
         ELSE [calls EXCEPT
                 ![c].pollData = PollData(polls[call.pollId].user_id, <<>>),
                 ![c].pc = "dp_role"]
  /\ UNCHANGED <<polls, votes, user_roles, audit_logs, nextPollId, now,
                 rateLimit, response, seen, adminPage>>

\* "Check if user is admin or owns the poll": the poll's user_id is read
deletePoll_poll(c) ==
  /\ calls[c].pc = "dp_poll"
  /\ LET call == calls[c] IN
       calls' =
         IF call.pollId \notin DOMAIN polls
         THEN Return(c, "Poll not found")
         ELSE [calls EXCEPT
                 ![c].pollData = PollData(polls[call.pollId].user_id, <<>>),
                 ![c].pc = IF polls[call.pollId].user_id # call.user
                           THEN "dp_role" ELSE "dp_delete"]
  /\ UNCHANGED <<polls, votes, user_roles, audit_logs, nextPollId, now,
                 rateLimit, response, seen, adminPage>>

\* mutation: the role is not checked before the delete
deletePoll_role_Skipped(c, fails) ==
  /\ calls[c].pc = "dp_role"
  /\ calls' = Goto(c, "dp_delete")
  /\ UNCHANGED <<polls, votes, user_roles, audit_logs, nextPollId, now,
                 rateLimit, response, seen, adminPage>>

\* "Check if user is admin": const {data: roleData} of the role query, whose
\* error is not looked at; if (!roleData) the call is refused
deletePoll_role(c, fails) ==
  /\ calls[c].pc = "dp_role"
  /\ LET roleData == RoleQuery(calls[c].user, fails) IN
       calls' =
         IF roleData = Null
         THEN [calls EXCEPT ![c].pc = "done", ![c].roleError = fails,
                            ![c].result = "You can only delete your own polls"]
         ELSE [calls EXCEPT ![c].pc = "dp_delete", ![c].roleError = fails]
  /\ UNCHANGED <<polls, votes, user_roles, audit_logs, nextPollId, now,
                 rateLimit, response, seen, adminPage>>

\* supabase.from("polls").delete().eq("id", id): the rows the delete policy
\* lets the user see are deleted, votes cascade; no row is no error
deletePoll_delete(c) ==
  /\ calls[c].pc = "dp_delete"
  /\ LET id == calls[c].pollId IN
       IF id \in DOMAIN polls /\ polls_delete_policy(calls[c].user, id)
       THEN /\ polls' = [p \in DOMAIN polls \ {id} |-> polls[p]]
            /\ votes' = CascadeVotes(id)
       ELSE UNCHANGED <<polls, votes>>
  /\ calls' = Return(c, Null)
  /\ UNCHANGED <<user_roles, audit_logs, nextPollId, now,
                 rateLimit, response, seen, adminPage>>

\* ------------------------------------------------------------------------
\* createPoll(formData) and updatePoll(pollId, formData)

\* error.message of the store for a row that fails a CHECK of table polls
PollsCheckMessage == "new row for relation \"polls\" violates check constraint"

\* the call, up to the insert: validation of the raw input, then getUser
createPoll(c, g, question, options) ==
  /\ calls[c].pc = "idle"
  /\ LET call == [Idle EXCEPT !.op = "createPoll", !.question = question,
                              !.options = FilterBoolean(options)]
         validationError == validatePollInput(question, FilterBoolean(options))
     IN calls' =
          [calls EXCEPT ![c] =
             IF validationError # Null
             THEN [call EXCEPT !.pc = "done", !.result = validationError]
             ELSE IF g.error
             THEN [call EXCEPT !.pc = "done", !.userError = TRUE,
                     !.result = AuthErrorMessage]
             ELSE IF g.user = Null
             THEN [call EXCEPT !.pc = "done",
                     !.result = "You must be logged in to create a poll."]
             ELSE [call EXCEPT !.pc = "cp_insert", !.user = g.user]]
  /\ UNCHANGED <<polls, votes, user_roles, audit_logs, nextPollId, now,
                 rateLimit, response, seen, adminPage>>

\* supabase.from("polls").insert([{user_id, question, options}]) with the
\* sanitized question and options
createPoll_insert(c) ==
  /\ calls[c].pc = "cp_insert"
  /\ LET row == [user_id |-> calls[c].user,
                 question |-> sanitizeInput(calls[c].question),
                 options |-> SanitizeAll(calls[c].options)]
     IN IF polls_insert_policy(calls[c].user, row) /\ polls_check(row)
        THEN /\ polls' = [p \in DOMAIN polls \cup {nextPollId} |->
                            IF p = nextPollId THEN row ELSE polls[p]]
             /\ nextPollId' = nextPollId + 1
             /\ calls' = Return(c, Null)
        ELSE /\ UNCHANGED <<polls, nextPollId>>
             /\ calls' = Return(c, PollsCheckMessage)
  /\ UNCHANGED <<votes, user_roles, audit_logs, now,
                 rateLimit, response, seen, adminPage>>

updatePoll(c, g, pollId, question, options) ==
  /\ calls[c].pc = "idle"
  /\ LET call == [Idle EXCEPT !.op = "updatePoll", !.pollId = pollId,
                              !.question = question,
                              !.options = FilterBoolean(options)]
         validationError == validatePollInput(question, FilterBoolean(options))
     IN calls' =
          [calls EXCEPT ![c] =
             IF InvalidPollId(pollId)
             THEN [call EXCEPT !.pc = "done", !.result = "Invalid poll ID"]
             ELSE IF validationError # Null
             THEN [call EXCEPT !.pc = "done", !.result = validationError]
             ELSE IF g.error
             THEN [call EXCEPT !.pc = "done", !.userError = TRUE,
                     !.result = AuthErrorMessage]
             ELSE IF g.user = Null
             THEN [call EXCEPT !.pc = "done",
                     !.result = "You must be logged in to update a poll."]
             ELSE [call EXCEPT !.pc = "up_update", !.user = g.user]]
  /\ UNCHANGED <<polls, votes, user_roles, audit_logs, nextPollId, now,
                 rateLimit, response, seen, adminPage>>

\* mutation: the update adds the options to the ones the poll has
updatePoll_update_Append(c) ==
  /\ calls[c].pc = "up_update"
  /\ LET id == calls[c].pollId
         matched == /\ id \in DOMAIN polls
                    /\ polls[id].user_id = calls[c].user
                    /\ polls_update_policy(calls[c].user, id)
         row == [polls[id] EXCEPT
                   !.question = sanitizeInput(calls[c].question),
                   !.options = polls[id].options
                                \o SanitizeAll(calls[c].options)]
     IN IF matched /\ ~ polls_check(row)
        THEN /\ polls' = polls
             /\ calls' = Return(c, PollsCheckMessage)
        ELSE /\ polls' = IF matched THEN [polls EXCEPT ![id] = row] ELSE polls
             /\ calls' = Return(c, Null)
  /\ UNCHANGED <<votes, user_roles, audit_logs, nextPollId, now,
                 rateLimit, response, seen, adminPage>>

\* mutation: the update is not filtered by the owner
updatePoll_update_Unfiltered(c) ==
  /\ calls[c].pc = "up_update"
  /\ LET id == calls[c].pollId
         matched == id \in DOMAIN polls
         row == [polls[id] EXCEPT
                   !.question = sanitizeInput(calls[c].question),
                   !.options = SanitizeAll(calls[c].options)]
     IN IF matched /\ ~ polls_check(row)
        THEN /\ polls' = polls
             /\ calls' = Return(c, PollsCheckMessage)
        ELSE /\ polls' = IF matched THEN [polls EXCEPT ![id] = row] ELSE polls
             /\ calls' = Return(c, Null)
  /\ UNCHANGED <<votes, user_roles, audit_logs, nextPollId, now,
                 rateLimit, response, seen, adminPage>>

\* "Only allow updating polls owned by the user": update where id = pollId
\* and user_id = user.id; no matching row is no error
updatePoll_update(c) ==
  /\ calls[c].pc = "up_update"
  /\ LET id == calls[c].pollId
         matched == /\ id \in DOMAIN polls
                    /\ polls[id].user_id = calls[c].user
                    /\ polls_update_policy(calls[c].user, id)
         row == [polls[id] EXCEPT
                   !.question = sanitizeInput(calls[c].question),
                   !.options = SanitizeAll(calls[c].options)]
     IN IF matched /\ ~ polls_check(row)
        THEN /\ polls' = polls
             /\ calls' = Return(c, PollsCheckMessage)
        ELSE /\ polls' = IF matched THEN [polls EXCEPT ![id] = row] ELSE polls
             /\ calls' = Return(c, Null)
  /\ UNCHANGED <<votes, user_roles, audit_logs, nextPollId, now,
                 rateLimit, response, seen, adminPage>>

\* ------------------------------------------------------------------------
\* validatePassword, login and register (auth-actions.ts)

\* /[a-z]/.test(password)
HasLowerCase(s) ==
  \E i \in 1..Len(s) : \E j \in 1..26 : s[i] = LowerCase[j]

\* /[A-Z]/.test(password)
HasUpperCase(s) ==
  \E i \in 1..Len(s) : \E j \in 1..26 : s[i] = UpperCase[j]

\* /\d/.test(password)
HasDigit(s) ==
  \E i \in 1..Len(s) :
    s[i] \in {"0", "1", "2", "3", "4", "5", "6", "7", "8", "9"}

\* mutation: the underscore is no special character
HasSpecial_NoUnderscore(s) ==
  \E i \in 1..Len(s) :
    s[i] \in {"!", "@", "#", "$", "%", "^", "&", "*", "(", ")", "+",
              "-", "=", "[", "]", "{", "}", ";", "'", ":", "\"", "\\",
              "|", ",", ".", "<", ">", "/", "?"}

\* /[!@#$%^&*()_+\-=\[\]{};':"\\|,.<>\/?]/.test(password)
HasSpecial(s) ==
  \E i \in 1..Len(s) :
    s[i] \in {"!", "@", "#", "$", "%", "^", "&", "*", "(", ")", "_", "+",
              "-", "=", "[", "]", "{", "}", ";", "'", ":", "\"", "\\",
              "|", ",", ".", "<", ">", "/", "?"}

\* const commonPasswords = [...]
commonPasswords ==
  {<<"p", "a", "s", "s", "w", "o", "r", "d">>,
   <<"1", "2", "3", "4", "5", "6">>,
   <<"1", "2", "3", "4", "5", "6", "7", "8">>,
   <<"q", "w", "e", "r", "t", "y">>,
   <<"a", "b", "c", "1", "2", "3">>,
   <<"p", "a", "s", "s", "w", "o", "r", "d", "1", "2", "3">>,
   <<"a", "d", "m", "i", "n">>,
   <<"l", "e", "t", "m", "e", "i", "n">>,
   <<"w", "e", "l", "c", "o", "m", "e">>,
   <<"m", "o", "n", "k", "e", "y">>}

validatePassword(password) ==
  IF password = <<>> \/ Len(password) < 8
  THEN "Password must be at least 8 characters long"
  ELSE IF Len(password) > 128
  THEN "Password must be less than 128 characters"
  ELSE IF ~ HasLowerCase(password)
  THEN "Password must contain at least one lowercase letter"
  ELSE IF ~ HasUpperCase(password)
  THEN "Password must contain at least one uppercase letter"
  ELSE IF ~ HasDigit(password)
  THEN "Password must contain at least one number"
  ELSE IF ~ HasSpecial(password)
  THEN "Password must contain at least one special character"
  ELSE IF ToLowerCase(password) \in commonPasswords
  THEN "This password is too common. Please choose a stronger password"
  ELSE Null

\* email.trim().toLowerCase()
sanitizeEmail(email) == ToLowerCase(Trim(email))

\* !email || !email.includes("@") || email.length > 254
InvalidEmail(email) ==
  email = <<>> \/ ~ Contains(email, <<"@">>) \/ Len(email) > 254

\* the outcomes of supabase.auth.signUp: no error, an error whose message
\* includes "already registered", another error
SignUpOutcomes == {"ok", "already registered", "error"}

\* the outcomes of supabase.auth.signInWithPassword: no error, an error
\* whose message includes "Invalid login credentials", another error
SignInOutcomes == {"ok", "Invalid login credentials", "error"}

\* register(data), up to the call of supabase.auth.signUp
register(c, email, name, password) ==
  /\ calls[c].pc = "idle"
  /\ LET call == [Idle EXCEPT !.op = "register", !.email = email,
                              !.name = name, !.password = password]
         passwordError == validatePassword(password)
     IN calls' =
          [calls EXCEPT ![c] =
             IF InvalidEmail(sanitizeEmail(email))
             THEN [call EXCEPT !.pc = "done",
                     !.result = "Please enter a valid email address"]
             ELSE IF name = <<>> \/ Len(Trim(name)) = 0
             THEN [call EXCEPT !.pc = "done", !.result = "Name is required"]
             ELSE IF Len(name) > 100
             THEN [call EXCEPT !.pc = "done",
                     !.result = "Name must be less than 100 characters"]
             ELSE IF passwordError # Null
             THEN [call EXCEPT !.pc = "done", !.result = passwordError]
             ELSE [call EXCEPT !.pc = "rg_signUp"]]
  /\ UNCHANGED <<polls, votes, user_roles, audit_logs, nextPollId, now,
                 rateLimit, response, seen, adminPage>>

\* await supabase.auth.signUp({email, password, options}) and the mapping of
\* its error
register_signUp(c, outcome) ==
  /\ calls[c].pc = "rg_signUp"
  /\ calls' =
       IF outcome = "ok" THEN Return(c, Null)
       ELSE IF outcome = "already registered"
       THEN Return(c, "An account with this email already exists")
       ELSE Return(c, "Registration failed. Please try again.")
  /\ UNCHANGED <<polls, votes, user_roles, audit_logs, nextPollId, now,
                 rateLimit, response, seen, adminPage>>

\* login(data), up to the call of supabase.auth.signInWithPassword
login(c, email, password) ==
  /\ calls[c].pc = "idle"
  /\ LET call == [Idle EXCEPT !.op = "login", !.email = email,
                              !.password = password]
     IN calls' =
          [calls EXCEPT ![c] =
             IF InvalidEmail(sanitizeEmail(email))
             THEN [call EXCEPT !.pc = "done",
                     !.result = "Please enter a valid email address"]
             ELSE IF password = <<>>
             THEN [call EXCEPT !.pc = "done",
                     !.result = "Password is required"]
             ELSE [call EXCEPT !.pc = "lg_signIn"]]
  /\ UNCHANGED <<polls, votes, user_roles, audit_logs, nextPollId, now,
                 rateLimit, response, seen, adminPage>>

\* await supabase.auth.signInWithPassword({email, password}) and the mapping
\* of its error
login_signIn(c, outcome) ==
  /\ calls[c].pc = "lg_signIn"
  /\ calls' =
       IF outcome = "ok" THEN Return(c, Null)
       ELSE IF outcome = "Invalid login credentials"
       THEN Return(c, "Invalid email or password")
       ELSE Return(c, "Login failed. Please try again.")
  /\ UNCHANGED <<polls, votes, user_roles, audit_logs, nextPollId, now,
                 rateLimit, response, seen, adminPage>>

\* ------------------------------------------------------------------------
\* isAdmin (auth-actions.ts) and the AdminPage component

\* mutation: a failed role query counts as a role
isAdmin_FailOpen(userId, fails) ==
  IF userId = Null THEN FALSE ELSE fails \/ HasAdminRow(userId)

\* isAdmin(userId): if (!userId) return false; return !!data of the role query
isAdmin(userId, fails) ==
  IF userId = Null THEN FALSE ELSE RoleQuery(userId, fails) # Null

\* getCurrentUser(): data.user of getUser, no user when the auth backend fails
getCurrentUser(g) == IF g.error THEN Null ELSE g.user

\* useState: isAuthorized = false, polls = []
NewPage == [isAuthorized |-> FALSE, polls |-> {}]

\* the AdminPage component whose handler runs as c: the page of client c, or,
\* where the handlers of a single page run side by side, that page
PageOf(c) ==
  IF c \in DOMAIN adminPage THEN c ELSE CHOOSE p \in DOMAIN adminPage : TRUE

\* checkAdminAccess(), run when the page is mounted, up to the role query
checkAdminAccess(c, g) ==
  /\ calls[c].pc = "idle"
  /\ LET call == [Idle EXCEPT !.op = "checkAdminAccess",
                              !.user = getCurrentUser(g)]
     IN calls' =
          [calls EXCEPT ![c] =
             IF getCurrentUser(g) = Null
             THEN [call EXCEPT !.pc = "done",
                     !.result = "Please login to continue"]
             ELSE [call EXCEPT !.pc = "ca_role"]]
  /\ adminPage' = [adminPage EXCEPT ![PageOf(c)] = NewPage]
  /\ UNCHANGED <<polls, votes, user_roles, audit_logs, nextPollId, now,
                 rateLimit, response, seen>>

\* hasAdminAccess = await isAdmin(user.id); setIsAuthorized(true) and
\* fetchAllPolls(), which begins with getCurrentUser of the same session
checkAdminAccess_role(c, fails) ==
  /\ calls[c].pc = "ca_role"
  /\ LET hasAdminAccess == isAdmin(calls[c].user, fails) IN
       IF ~ hasAdminAccess
       THEN /\ calls' =
                 [calls EXCEPT ![c].pc = "done", ![c].roleError = fails,
                    ![c].result = "Access denied. Admin privileges required."]
            /\ adminPage' = adminPage
       ELSE /\ calls' =
                 [calls EXCEPT ![c] =
                    [Idle EXCEPT !.op = "fetchAllPolls", !.pc = "fa_role",
                                 !.user = calls[c].user]]
            /\ adminPage' = [adminPage EXCEPT ![PageOf(c)].isAuthorized = TRUE]
  /\ UNCHANGED <<polls, votes, user_roles, audit_logs, nextPollId, now,
                 rateLimit, response, seen>>

\* mutation: the page's isAuthorized is used in place of a role query
fetchAllPolls_role_Cached(c, fails) ==
  /\ calls[c].pc = "fa_role"
  /\ calls' =
       IF ~ adminPage[PageOf(c)].isAuthorized
       THEN [calls EXCEPT ![c].pc = "done", ![c].roleError = fails,
                          ![c].result = "Unauthorized access attempt"]
       ELSE [calls EXCEPT ![c].pc = "fa_fetch", ![c].roleError = fails,
                          ![c].hasAdminAccess = TRUE]
  /\ UNCHANGED <<polls, votes, user_roles, audit_logs, nextPollId, now,
                 rateLimit, response, seen, adminPage>>

\* fetchAllPolls: "Only fetch if user is admin (double-check)"
fetchAllPolls_role(c, fails) ==
  /\ calls[c].pc = "fa_role"
  /\ LET hasAdminAccess == isAdmin(calls[c].user, fails) IN
       calls' =
         IF ~ hasAdminAccess
         THEN [calls EXCEPT ![c].pc = "done", ![c].roleError = fails,
                            ![c].result = "Unauthorized access attempt"]
         ELSE [calls EXCEPT ![c].pc = "fa_fetch", ![c].roleError = fails,
                            ![c].hasAdminAccess = TRUE]
  /\ UNCHANGED <<polls, votes, user_roles, audit_logs, nextPollId, now,
                 rateLimit, response, seen, adminPage>>

\* fetchAllPolls: supabase.from("polls").select("*"), then setPolls(data)
fetchAllPolls_fetch(c) ==
  /\ calls[c].pc = "fa_fetch"
  /\ adminPage' = [adminPage EXCEPT ![PageOf(c)].polls = DOMAIN polls]
  /\ calls' = Return(c, Null)
  /\ UNCHANGED <<polls, votes, user_roles, audit_logs, nextPollId, now,
                 rateLimit, response, seen>>

\* handleDelete(pollId), the Delete button of a displayed poll, up to the
\* role query; polls is the list of the render the handler belongs to
handleDelete(c, g, pollId) ==
  /\ calls[c].pc = "idle"
  /\ adminPage[PageOf(c)].isAuthorized
  /\ pollId \in adminPage[PageOf(c)].polls
  /\ calls' =
       [calls EXCEPT ![c] =
          [Idle EXCEPT !.op = "handleDelete", !.pc = "hd_role",
                       !.user = getCurrentUser(g), !.pollId = pollId,
                       !.closure = adminPage[PageOf(c)].polls]]
  /\ UNCHANGED <<polls, votes, user_roles, audit_logs, nextPollId, now,
                 rateLimit, response, seen, adminPage>>

\* handleDelete: "Confirm admin status before deletion", the confirm dialog,
\* then the deletePoll server action begins, with the session of the page
handleDelete_role(c, fails, confirmed) ==
  /\ calls[c].pc = "hd_role"
  /\ LET hasAdminAccess == isAdmin(calls[c].user, fails) IN
       calls' =
         IF ~ hasAdminAccess
         THEN [calls EXCEPT ![c].pc = "done", ![c].roleError = fails,
                 ![c].result = "Admin privileges required for this action"]
         ELSE IF ~ confirmed
         THEN [calls EXCEPT ![c].pc = "done", ![c].hasAdminAccess = TRUE,
                 ![c].result = "cancelled"]
         ELSE [calls EXCEPT ![c] =
                 [deletePoll_call([user |-> calls[c].user, error |-> FALSE],
                                  calls[c].pollId, "handleDelete")
                    EXCEPT !.closure = calls[c].closure,
                           !.hasAdminAccess = TRUE]]
  /\ UNCHANGED <<polls, votes, user_roles, audit_logs, nextPollId, now,
                 rateLimit, response, seen, adminPage>>

\* handleDelete after deletePoll has returned: toast.error, or
\* setPolls(polls.filter((poll) => poll.id !== pollId))
handleDelete_result(c) ==
  /\ calls[c].pc = "done"
  /\ calls[c].caller = "handleDelete"
  /\ adminPage' =
       IF calls[c].result # Null
       THEN adminPage
       ELSE [adminPage EXCEPT ![PageOf(c)].polls = calls[c].closure \ {calls[c].pollId}]
  /\ calls' = [calls EXCEPT ![c] = Idle]
  /\ UNCHANGED <<polls, votes, user_roles, audit_logs, nextPollId, now,
                 rateLimit, response, seen>>

\* ------------------------------------------------------------------------
\* The request gate: updateSession (middleware.ts)

\* isRateLimited: const windowMs = 5 * 60 * 1000
windowMs == 300000

\* isRateLimited: const maxRequests = 100
maxRequests == 100

\* the values of getRateLimitKey(request): `${ip}-${userAgent.substring(0, 50)}`
Keys == {"k1", "k2"}

\* no request has been answered yet
NoResponse ==
  [request |-> [method |-> Null, origin |-> Null, host |-> Null,
                csrfToken |-> Null],
   status |-> 0, retryAfter |-> Null, rateLimitReset |-> 0, getUser |-> 0]

\* the key has sent no request yet
NotSeen == [start |-> 0, n |-> 0]

\* rateLimit.set(key, value)
MapSet(map, key, value) ==
  [k \in DOMAIN map \cup {key} |-> IF k = key THEN value ELSE map[k]]

\* rateLimit.delete(key) for every key of a set
MapDelete(map, keys) == [k \in DOMAIN map \ keys |-> map[k]]

\* mutation: a window never expires
Expired_Never(key) == key \notin DOMAIN rateLimit

\* !current || now - current.timestamp > windowMs
Expired(key) ==
  \/ key \notin DOMAIN rateLimit
  \/ now - rateLimit[key].timestamp > windowMs

\* mutation: one request too many is let through
AtLimit_OffByOne(key) == rateLimit[key].count > maxRequests

\* current.count >= maxRequests
AtLimit(key) == rateLimit[key].count >= maxRequests

\* mutation: the map holds one entry, which all clients share
isRateLimited_SharedKey(key) ==
  IF "k1" \notin DOMAIN rateLimit \/ now - rateLimit["k1"].timestamp > windowMs
  THEN [limited |-> FALSE,
        rateLimit |-> MapSet(rateLimit, "k1", [count |-> 1, timestamp |-> now])]
  ELSE IF rateLimit["k1"].count >= maxRequests
  THEN [limited |-> TRUE, rateLimit |-> rateLimit]
  ELSE [limited |-> FALSE,
        rateLimit |-> [rateLimit EXCEPT !["k1"].count = @ + 1]]

\* mutation: a request that is limited is counted too
isRateLimited_CountsLimited(key) ==
  IF Expired(key)
  THEN [limited |-> FALSE,
        rateLimit |-> MapSet(rateLimit, key, [count |-> 1, timestamp |-> now])]
  ELSE [limited |-> AtLimit(key),
        rateLimit |-> [rateLimit EXCEPT ![key].count = @ + 1]]

\* isRateLimited(request): what it returns and the map it leaves.  The
\* function has no await: it runs from its first to its last statement
\* without any other request or timer running in between.
isRateLimited(key) ==
  IF Expired(key)
  THEN [limited |-> FALSE,
        rateLimit |-> MapSet(rateLimit, key, [count |-> 1, timestamp |-> now])]
  ELSE IF AtLimit(key)
  THEN [limited |-> TRUE, rateLimit |-> rateLimit]
  ELSE [limited |-> FALSE,
        rateLimit |-> [rateLimit EXCEPT ![key].count = @ + 1]]

\* a request as hasCSRFProtection reads it: its method and the headers
\* origin, host and x-csrf-token (Null: the header is absent)
Request(method, origin, host, csrfToken) ==
  [method |-> method, origin |-> origin, host |-> host,
   csrfToken |-> csrfToken]

\* new URL(origin).host; the constructor throws a TypeError for an Origin
\* header that is no URL
UrlHost(origin) ==
  CASE origin = "https://polly.app" -> "polly.app"
    [] origin = "https://evil.example" -> "evil.example"
    [] OTHER -> "TypeError"

\* mutation: an empty header counts as a header
Truthy_Present(str) == str # Null

\* a JavaScript string is truthy when it is present and not empty
Truthy(str) == str # Null /\ str # ""

\* mutation: an x-csrf-token header is enough
hasCSRFProtection_TokenFirst(request) ==
  IF request.method \in {"GET", "HEAD", "OPTIONS"}
  THEN "true"
  ELSE IF Truthy(request.csrfToken)
  THEN "true"
  ELSE IF Truthy(request.origin) /\ Truthy(request.host)
  THEN IF UrlHost(request.origin) = "TypeError"
       THEN "TypeError"
       ELSE IF UrlHost(request.origin) = request.host
       THEN "true" ELSE "false"
  ELSE "false"

\* hasCSRFProtection(request): "true", "false" or the TypeError thrown
hasCSRFProtection(request) ==
  IF request.method \in {"GET", "HEAD", "OPTIONS"}
  THEN "true"
  ELSE IF Truthy(request.origin) /\ Truthy(request.host)
  THEN IF UrlHost(request.origin) = "TypeError"
       THEN "TypeError"
       ELSE IF UrlHost(request.origin) = request.host
       THEN "true" ELSE "false"
  ELSE IF Truthy(request.csrfToken) THEN "true" ELSE "false"

\* updateSession has answered the request: the status of the response (500
\* for an exception that nothing catches), its Retry-After header, the
\* X-RateLimit-Reset header of a 429 (Date.now() + 5 * 60 * 1000, 0 for no
\* header), and the number of calls of supabase.auth.getUser() made on the way
Response(request, status, retryAfter, getUser) ==
  [request |-> request, status |-> status, retryAfter |-> retryAfter,
   rateLimitReset |-> IF status = 429 THEN now + 5 * 60 * 1000 ELSE 0,
   getUser |-> getUser]

\* the requests the key has sent in its window, this one included; a window
\* begins with the key's first request and with the first one it sends more
\* than windowMs after the window began
SeenAfter(key) ==
  IF seen[key].n = 0 \/ now - seen[key].start > windowMs
  THEN [start |-> now, n |-> 1]
  ELSE [seen[key] EXCEPT !.n = @ + 1]

\* mutation: the origin check comes before the rate limit
updateSession_OriginFirst(key, request, g) ==
  /\ SeenAfter(key).n <= maxRequests + MaxExtra
  /\ LET r == isRateLimited(key)
         csrf == hasCSRFProtection(request)
     IN IF csrf = "TypeError"
        THEN /\ rateLimit' = rateLimit
             /\ response' = Response(request, 500, Null, 0)
        ELSE IF csrf = "false"
        THEN /\ rateLimit' = rateLimit
             /\ response' = Response(request, 403, Null, 0)
        ELSE /\ rateLimit' = r.rateLimit
             /\ response' =
                  IF r.limited THEN Response(request, 429, "300", 0)
                  ELSE IF g.user = Null THEN Response(request, 307, Null, 1)
                  ELSE Response(request, 200, Null, 1)
  /\ seen' = [seen EXCEPT ![key] = SeenAfter(key)]
  /\ UNCHANGED <<polls, votes, user_roles, audit_logs, nextPollId, now,
                 calls, adminPage>>

\* updateSession(request) of a client with the given key and session, on a
\* path that is no auth route.  The one await, getUser, comes after the last
\* access to rateLimit, and what follows it reads only the request.
updateSession(key, request, g) ==
  /\ SeenAfter(key).n <= maxRequests + MaxExtra
  /\ LET r == isRateLimited(key)
         csrf == hasCSRFProtection(request)
     IN /\ rateLimit' = r.rateLimit
        /\ response' =
             IF r.limited THEN Response(request, 429, "300", 0)
             ELSE IF csrf = "TypeError" THEN Response(request, 500, Null, 0)
             ELSE IF csrf = "false" THEN Response(request, 403, Null, 0)
             ELSE IF g.user = Null THEN Response(request, 307, Null, 1)
             ELSE Response(request, 200, Null, 1)
  /\ seen' = [seen EXCEPT ![key] = SeenAfter(key)]
  /\ UNCHANGED <<polls, votes, user_roles, audit_logs, nextPollId, now,
                 calls, adminPage>>

\* mutation: the sweep also deletes the entries that are five minutes old
Sweep_AtBoundary ==
  /\ LET fiveMinutesAgo == now - 5 * 60 * 1000 IN
       rateLimit' =
         MapDelete(rateLimit,
                   {k \in DOMAIN rateLimit :
                      rateLimit[k].timestamp <= fiveMinutesAgo})
  /\ UNCHANGED <<polls, votes, user_roles, audit_logs, nextPollId, now,
                 calls, response, seen, adminPage>>

\* the setInterval callback: entries older than five minutes are deleted
Sweep ==
  /\ LET fiveMinutesAgo == now - 5 * 60 * 1000 IN
       rateLimit' =
         MapDelete(rateLimit,
                   {k \in DOMAIN rateLimit :
                      rateLimit[k].timestamp < fiveMinutesAgo})
  /\ UNCHANGED <<polls, votes, user_roles, audit_logs, nextPollId, now,
                 calls, response, seen, adminPage>>

\* time passes: one rate limit window
TickWindow ==
  /\ now + windowMs <= MaxLimitTicks * windowMs
  /\ now' = now + windowMs
  /\ UNCHANGED <<polls, votes, user_roles, audit_logs, nextPollId, calls,
                 rateLimit, response, seen, adminPage>>

\* ------------------------------------------------------------------------
\* Environment

\* the response is delivered; the client is free to send its next request
Finish(c) ==
  /\ calls[c].pc = "done"
  /\ calls[c].caller = Null
  /\ calls' = [calls EXCEPT ![c] = Idle]
  /\ UNCHANGED <<polls, votes, user_roles, audit_logs, nextPollId, now,
                 rateLimit, response, seen, adminPage>>

\* time passes
Tick ==
  /\ now + TickMs <= MaxNow
  /\ now' = now + TickMs
  /\ UNCHANGED <<polls, votes, user_roles, audit_logs, nextPollId, calls,
                 rateLimit, response, seen, adminPage>>

\* POLICY "Admins can grant roles": an admin inserts a role row;
\* UNIQUE(user_id, role) refuses a second row
GrantRole(actor, u) ==
  /\ user_roles_insert_policy(actor)
  /\ user_roles_unique(RoleRow(u, "admin", actor))
  /\ user_roles' = user_roles \cup {RoleRow(u, "admin", actor)}
  /\ UNCHANGED <<polls, votes, audit_logs, nextPollId, now, calls,
                 rateLimit, response, seen, adminPage>>

\* a role row is deleted: by the owner of the database, whom no policy
\* binds, or with the user (user_id ... ON DELETE CASCADE)
RevokeRole(u) ==
  /\ HasAdminRow(u)
  /\ user_roles' =
       {ur \in user_roles : ~ (ur.user_id = u /\ ur.role = "admin")}
  /\ UNCHANGED <<polls, votes, audit_logs, nextPollId, now, calls,
                 rateLimit, response, seen, adminPage>>

\* ------------------------------------------------------------------------
\* Specification Spec: two clients send any of the four requests, one after
\* the other each and concurrently with each other, within one clock reading,
\* while admins grant the admin role

\* the sessions of the clients: a signed-in user or none
Sessions == {[user |-> u, error |-> FALSE] : u \in Users \cup {Null}}

PollIdArgs == 1..MaxPolls

OptionIndexArgs == {NumberArg(0), NumberArg(4)}

PollForms ==
  {[question |-> Q1, options |-> <<<<"a">>, <<"b">>>>],
   [question |-> Q1, options |-> <<<<"a">>, <<"b">>, <<"c">>>>],
   [question |-> Q1, options |-> <<<<"a">>, <<>>>>]}

\* ids are left for the polls of the createPoll calls in flight
CanCreate ==
  nextPollId + Cardinality({c \in Procs : calls[c].pc = "cp_insert"}) <= MaxPolls

\* the setup script's optional first admin
InitialRoles == {{}, {RoleRow("u2", "admin", Null)}}

Init ==
  /\ polls = <<>>
  /\ votes = {}
  /\ user_roles \in InitialRoles
  /\ audit_logs = <<>>
  /\ nextPollId = 1
  /\ now = 0
  /\ calls = [c \in Procs |-> Idle]
  /\ rateLimit = <<>>
  /\ response = NoResponse
  /\ seen = [k \in Keys |-> NotSeen]
  /\ adminPage = [c \in Procs |-> NewPage]

Next ==
  \/ \E c \in Procs, g \in Sessions, id \in PollIdArgs,
        optionIndex \in OptionIndexArgs : submitVote(c, g, id, optionIndex)
  \/ \E c \in Procs : submitVote_poll(c)
  \/ \E c \in Procs : submitVote_existing(c)
  \/ \E c \in Procs : submitVote_rate(c)
  \/ \E c \in Procs : submitVote_insert(c)
  \/ \E c \in Procs, g \in Sessions, id \in PollIdArgs : deletePoll(c, g, id)
  \/ \E c \in Procs : deletePoll_poll(c)
  \/ \E c \in Procs, fails \in BOOLEAN : deletePoll_role(c, fails)
  \/ \E c \in Procs : deletePoll_delete(c)
  \/ \E c \in Procs, g \in Sessions, f \in PollForms :
        CanCreate /\ createPoll(c, g, f.question, f.options)
  \/ \E c \in Procs : createPoll_insert(c)
  \/ \E c \in Procs, g \in Sessions, id \in PollIdArgs, f \in PollForms :
        updatePoll(c, g, id, f.question, f.options)
  \/ \E c \in Procs : updatePoll_update(c)
  \/ \E c \in Procs : Finish(c)
  \/ \E actor \in Users, u \in Users : GrantRole(actor, u)

Spec == Init /\ [][Next]_vars

\* ------------------------------------------------------------------------
\* Specification SpecRate: two clients send votes, with any arguments, as one
\* user or without a session, while time passes.  It starts where polls
\* 1..RatePolls exist and the user has just voted on polls 1..PriorVotes.

Voter == "u1"

RateSessions ==
  {[user |-> Voter, error |-> FALSE], [user |-> Null, error |-> FALSE],
   [user |-> Null, error |-> TRUE]}

\* a malformed id, the existing polls and the id of no poll
RatePollIdArgs == 0..(RatePolls + 1)

\* -1, 0, 0.5, 2 and "0"
RateOptionIndexArgs ==
  {NumberArg(-2), NumberArg(0), NumberArg(1), NumberArg(4), StringArg}

InitRate ==
  /\ polls = [id \in 1..RatePolls |->
                [user_id |-> "u2", question |-> Q1,
                 options |-> <<<<"a">>, <<"b">>>>]]
  /\ votes = {[poll_id |-> id, user_id |-> Voter, option_index |-> 0,
               created_at |-> 0] : id \in 1..PriorVotes}
  /\ user_roles = {}
  /\ audit_logs = <<>>
  /\ nextPollId = RatePolls + 1
  /\ now = 0
  /\ calls = [c \in Procs |-> Idle]
  /\ rateLimit = <<>>
  /\ response = NoResponse
  /\ seen = [k \in Keys |-> NotSeen]
  /\ adminPage = [c \in Procs |-> NewPage]

NextRate ==
  \/ \E c \in Procs, g \in RateSessions, id \in RatePollIdArgs,
        optionIndex \in RateOptionIndexArgs : submitVote(c, g, id, optionIndex)
  \/ \E c \in Procs : submitVote_poll(c)
  \/ \E c \in Procs : submitVote_existing(c)
  \/ \E c \in Procs : submitVote_rate(c)
  \/ \E c \in Procs : submitVote_insert(c)
  \/ \E c \in Procs : Finish(c)
  \/ Tick

SpecRate == InitRate /\ [][NextRate]_vars

\* ------------------------------------------------------------------------
\* Specification SpecLimit: the clients of two keys send requests through
\* updateSession while time passes, one window at a time, and the sweep runs

LimitRequests ==
  {Request("GET", Null, "polly.app", Null),
   Request("POST", "https://evil.example", "polly.app", Null)}

LimitSessions == {[user |-> Voter, error |-> FALSE]}

InitLimit ==
  /\ polls = <<>>
  /\ votes = {}
  /\ user_roles = {}
  /\ audit_logs = <<>>
  /\ nextPollId = 1
  /\ now = 0
  /\ calls = [c \in Procs |-> Idle]
  /\ rateLimit = <<>>
  /\ response = NoResponse
  /\ seen = [k \in Keys |-> NotSeen]
  /\ adminPage = [c \in Procs |-> NewPage]

NextLimit ==
  \/ \E key \in Keys, request \in LimitRequests, g \in LimitSessions :
        updateSession(key, request, g)
  \/ Sweep
  \/ TickWindow

SpecLimit == InitLimit /\ [][NextLimit]_vars

\* ------------------------------------------------------------------------
\* Specification SpecGate: the clients of one key send requests of any
\* method, with and without the headers origin, host and x-csrf-token, with
\* and without a session, while time passes and the sweep runs.  It starts
\* where the key has just sent GatePrior requests, all let through.

GateKeys == {"k1"}

\* "polly.app" is an Origin header without a scheme: it is no URL
GateRequests ==
  {Request(method, origin, host, csrfToken) :
     method \in {"GET", "HEAD", "OPTIONS", "POST", "DELETE"},
     origin \in {Null, "", "https://polly.app", "https://evil.example",
                 "polly.app"},
     host \in {Null, "polly.app"},
     csrfToken \in {Null, "", "token", "forged"}}

GateSessions == {[user |-> u, error |-> FALSE] : u \in {Voter, Null}}

InitGate ==
  /\ polls = <<>>
  /\ votes = {}
  /\ user_roles = {}
  /\ audit_logs = <<>>
  /\ nextPollId = 1
  /\ now = 0
  /\ calls = [c \in Procs |-> Idle]
  /\ rateLimit = [k \in GateKeys |-> [count |-> GatePrior, timestamp |-> 0]]
  /\ response = NoResponse
  /\ seen = [k \in Keys |->
               IF k \in GateKeys THEN [start |-> 0, n |-> GatePrior]
               ELSE NotSeen]
  /\ adminPage = [c \in Procs |-> NewPage]

NextGate ==
  \/ \E key \in GateKeys, request \in GateRequests, g \in GateSessions :
        updateSession(key, request, g)
  \/ Sweep
  \/ TickWindow

SpecGate == InitGate /\ [][NextGate]_vars

\* ------------------------------------------------------------------------
\* Specification SpecForms: one client sends createPoll and updatePoll calls
\* with forms of all kinds, valid and invalid, as the owner of poll 1, without
\* a session, or while the auth backend fails.  It starts where poll 1 exists.

FormProcs == {"r1"}

\* questions: valid, empty, blank, too long, with a forbidden pattern, with
\* an ampersand, and of 500 ampersands
FormQuestions ==
  {Q1, <<>>, <<" ">>, Repeat("a", MAX_QUESTION_LENGTH + 1),
   <<"<", "S", "C", "R", "I", "P", "T", ">">>,
   <<"a", "&", "b">>, Repeat("&", MAX_QUESTION_LENGTH)}

\* option lists: valid, too few, too many, with a blank option, with an
\* option too long, with a forbidden pattern, with two options that differ
\* in case and spaces only, with an option that is a tag only, with an option
\* that differs from another by a tag, with an option of 41 ampersands
FormOptions ==
  {<<<<"a">>, <<"b">>>>,
   <<<<"a">>>>,
   [i \in 1..(MAX_OPTIONS + 1) |-> <<LowerCase[i]>>],
   <<<<"a">>, <<" ">>>>,
   <<<<"a">>, Repeat("b", MAX_OPTION_LENGTH + 1)>>,
   <<<<"a">>, <<"D", "a", "T", "a", ":">>>>,
   <<<<"A">>, <<" ", "a">>>>,
   <<<<"<", "b", ">">>, <<"x">>>>,
   <<<<"x">>, <<"<", "i", ">", "x">>>>,
   <<<<"a">>, Repeat("&", 41)>>}

FormSessions ==
  {[user |-> "u1", error |-> FALSE], [user |-> Null, error |-> FALSE],
   [user |-> Null, error |-> TRUE]}

\* a malformed id and the id of poll 1
FormPollIdArgs == {0, 1}

InitForms ==
  /\ polls = [id \in {1} |->
                [user_id |-> "u1", question |-> Q1,
                 options |-> <<<<"a">>, <<"b">>>>]]
  /\ votes = {}
  /\ user_roles = {}
  /\ audit_logs = <<>>
  /\ nextPollId = 2
  /\ now = 0
  /\ calls = [c \in Procs |-> Idle]
  /\ rateLimit = <<>>
  /\ response = NoResponse
  /\ seen = [k \in Keys |-> NotSeen]
  /\ adminPage = [c \in Procs |-> NewPage]

NextForms ==
  \/ \E c \in FormProcs, g \in FormSessions, question \in FormQuestions,
        options \in FormOptions :
        nextPollId <= MaxFormPolls + 1 /\ createPoll(c, g, question, options)
  \/ \E c \in FormProcs : createPoll_insert(c)
  \/ \E c \in FormProcs, g \in FormSessions, id \in FormPollIdArgs,
        question \in FormQuestions, options \in FormOptions :
        updatePoll(c, g, id, question, options)
  \/ \E c \in FormProcs : updatePoll_update(c)
  \/ \E c \in FormProcs : Finish(c)

SpecForms == InitForms /\ [][NextForms]_vars

\* ------------------------------------------------------------------------
\* Specification SpecAuth: one client registers and logs in with emails,
\* names and passwords of all kinds, and sends the four poll requests as any
\* user or without a session, while admins grant the admin role and role
\* rows are deleted.

AuthProcs == {"r1"}

\* a valid email with outer spaces and capitals, and one without "@"
AuthEmails == {<<" ", "A", "@", "b", ".", "c">>, <<"a", "b">>}

\* a name, a blank name and a name of 101 characters
AuthNames == {<<"A", "l">>, <<" ">>, Repeat("n", 101)}

\* passwords that pass, and passwords that fail one rule or several
AuthPasswords ==
  {<<>>,
   <<"A", "a", "1", "!">>,
   <<"A", "b", "c", "d", "e", "1", "!">>,
   <<"A", "b", "c", "d", "e", "f", "1", "!">>,
   <<"A", "b", "c", "d", "e", "f", "1", "_">>,
   <<"A", "a", "1", "!">> \o Repeat("x", 124),
   <<"A", "a", "1", "!">> \o Repeat("x", 125),
   Repeat("x", 129),
   <<"A", "B", "C", "D", "E", "F", "1", "!">>,
   <<"a", "b", "c", "d", "e", "f", "1", "!">>,
   <<"A", "b", "c", "d", "e", "f", "g", "!">>,
   <<"A", "b", "c", "d", "e", "f", "g", "1">>,
   <<"a", "b", "c", "d", "e", "f", "g", "h">>,
   <<"p", "a", "s", "s", "w", "o", "r", "d">>,
   <<"1", "2", "3", "4", "5", "6", "7", "8">>,
   <<"P", "a", "s", "s", "w", "o", "r", "d", "1", "2", "3">>,
   <<"P", "a", "s", "s", "w", "o", "r", "d", "1", "2", "3", "!">>}

AuthForms == {[question |-> Q1, options |-> <<<<"a">>, <<"b">>>>]}

InitAuth ==
  /\ polls = <<>>
  /\ votes = {}
  /\ user_roles \in InitialRoles
  /\ audit_logs = <<>>
  /\ nextPollId = 1
  /\ now = 0
  /\ calls = [c \in Procs |-> Idle]
  /\ rateLimit = <<>>
  /\ response = NoResponse
  /\ seen = [k \in Keys |-> NotSeen]
  /\ adminPage = [c \in Procs |-> NewPage]

NextAuth ==
  \/ \E c \in AuthProcs, email \in AuthEmails, name \in AuthNames,
        password \in AuthPasswords : register(c, email, name, password)
  \/ \E c \in AuthProcs, outcome \in SignUpOutcomes :
        register_signUp(c, outcome)
  \/ \E c \in AuthProcs, email \in AuthEmails, password \in AuthPasswords :
        login(c, email, password)
  \/ \E c \in AuthProcs, outcome \in SignInOutcomes : login_signIn(c, outcome)
  \/ \E c \in AuthProcs, g \in Sessions, id \in PollIdArgs,
        optionIndex \in OptionIndexArgs : submitVote(c, g, id, optionIndex)
  \/ \E c \in AuthProcs : submitVote_poll(c)
  \/ \E c \in AuthProcs : submitVote_existing(c)
  \/ \E c \in AuthProcs : submitVote_rate(c)
  \/ \E c \in AuthProcs : submitVote_insert(c)
  \/ \E c \in AuthProcs, g \in Sessions, id \in PollIdArgs :
        deletePoll(c, g, id)
  \/ \E c \in AuthProcs : deletePoll_poll(c)
  \/ \E c \in AuthProcs, fails \in BOOLEAN : deletePoll_role(c, fails)
  \/ \E c \in AuthProcs : deletePoll_delete(c)
  \/ \E c \in AuthProcs, g \in Sessions, f \in AuthForms :
        CanCreate /\ createPoll(c, g, f.question, f.options)
  \/ \E c \in AuthProcs : createPoll_insert(c)
  \/ \E c \in AuthProcs, g \in Sessions, id \in PollIdArgs, f \in AuthForms :
        updatePoll(c, g, id, f.question, f.options)
  \/ \E c \in AuthProcs : updatePoll_update(c)
  \/ \E c \in AuthProcs : Finish(c)
  \/ \E actor \in Users, u \in Users : GrantRole(actor, u)
  \/ \E u \in Users : RevokeRole(u)

SpecAuth == InitAuth /\ [][NextAuth]_vars

\* ------------------------------------------------------------------------
\* Specification SpecAdmin: two clients open the admin page and delete polls
\* from it, or call deletePoll directly, while admin roles are granted and
\* revoked and role queries may fail.  It starts where polls 1..AdminPolls
\* of user u1 exist.

AdminSessions == {[user |-> u, error |-> FALSE] : u \in Users \cup {Null}}

InitialAdminRoles ==
  {{}, {RoleRow("u2", "admin", Null)},
   {RoleRow(u, "admin", Null) : u \in Users}}

InitAdmin ==
  /\ polls = [id \in 1..AdminPolls |->
                [user_id |-> "u1", question |-> Q1,
                 options |-> <<<<"a">>, <<"b">>>>]]
  /\ votes = {}
  /\ user_roles \in InitialAdminRoles
  /\ audit_logs = <<>>
  /\ nextPollId = AdminPolls + 1
  /\ now = 0
  /\ calls = [c \in Procs |-> Idle]
  /\ rateLimit = <<>>
  /\ response = NoResponse
  /\ seen = [k \in Keys |-> NotSeen]
  /\ adminPage = [c \in Procs |-> NewPage]

NextAdmin ==
  \/ \E c \in Procs, g \in AdminSessions : checkAdminAccess(c, g)
  \/ \E c \in Procs, fails \in BOOLEAN : checkAdminAccess_role(c, fails)
  \/ \E c \in Procs, fails \in BOOLEAN : fetchAllPolls_role(c, fails)
  \/ \E c \in Procs : fetchAllPolls_fetch(c)
  \/ \E c \in Procs, g \in AdminSessions, id \in 1..AdminPolls :
        handleDelete(c, g, id)
  \/ \E c \in Procs, fails \in BOOLEAN, confirmed \in BOOLEAN :
        handleDelete_role(c, fails, confirmed)
  \/ \E c \in Procs : handleDelete_result(c)
  \/ \E c \in Procs, g \in AdminSessions, id \in 1..AdminPolls :
        deletePoll(c, g, id)
  \/ \E c \in Procs : deletePoll_poll(c)
  \/ \E c \in Procs, fails \in BOOLEAN : deletePoll_role(c, fails)
  \/ \E c \in Procs : deletePoll_delete(c)
  \/ \E c \in Procs : Finish(c)
  \/ \E actor \in Users, u \in Users : GrantRole(actor, u)
  \/ \E u \in Users : RevokeRole(u)

SpecAdmin == InitAdmin /\ [][NextAdmin]_vars

\* ------------------------------------------------------------------------
\* Specification SpecPage: one admin page.  The page is opened while none of
\* its handlers runs; the Delete buttons of different polls can then be
\* pressed while an earlier handleDelete is still waiting (a button is
\* disabled only for the poll being deleted), so the handlers r1 and r2 of
\* the page run side by side.  Roles are granted and revoked meanwhile.

ThePage == "r1"

InitPage ==
  /\ polls = [id \in 1..AdminPolls |->
                [user_id |-> "u1", question |-> Q1,
                 options |-> <<<<"a">>, <<"b">>>>]]
  /\ votes = {}
  /\ user_roles \in InitialAdminRoles
  /\ audit_logs = <<>>
  /\ nextPollId = AdminPolls + 1
  /\ now = 0
  /\ calls = [c \in Procs |-> Idle]
  /\ rateLimit = <<>>
  /\ response = NoResponse
  /\ seen = [k \in Keys |-> NotSeen]
  /\ adminPage = [p \in {ThePage} |-> NewPage]

\* the page is opened, or opened again, while none of its handlers runs
OpenPage(g) ==
  /\ \A c \in Procs : calls[c].pc = "idle"
  /\ checkAdminAccess(ThePage, g)

\* Delete is pressed for a poll no running handler is deleting
PressDelete(c, g, pollId) ==
  /\ \A d \in Procs : calls[d].pc # "idle" => calls[d].pollId # pollId
  /\ handleDelete(c, g, pollId)

NextPage ==
  \/ \E g \in AdminSessions : OpenPage(g)
  \/ \E fails \in BOOLEAN : checkAdminAccess_role(ThePage, fails)
  \/ \E fails \in BOOLEAN : fetchAllPolls_role(ThePage, fails)
  \/ fetchAllPolls_fetch(ThePage)
  \/ \E c \in Procs, g \in AdminSessions, id \in 1..AdminPolls :
        PressDelete(c, g, id)
  \/ \E c \in Procs, fails \in BOOLEAN, confirmed \in BOOLEAN :
        handleDelete_role(c, fails, confirmed)
  \/ \E c \in Procs : deletePoll_poll(c)
  \/ \E c \in Procs, fails \in BOOLEAN : deletePoll_role(c, fails)
  \/ \E c \in Procs : deletePoll_delete(c)
  \/ \E c \in Procs : handleDelete_result(c)
  \/ \E c \in Procs : Finish(c)
  \/ \E actor \in Users, u \in Users : GrantRole(actor, u)
  \/ \E u \in Users : RevokeRole(u)

SpecPage == InitPage /\ [][NextPage]_vars

\* ------------------------------------------------------------------------
\* Specification SpecUpdate: one client sends updatePoll calls for two polls
\* of two owners, as either user or without a session, while the admin role is
\* granted and role rows are deleted.  It starts where poll 1 of u1 and poll
\* 2 of u2 exist, each with a vote.

UpdateProcs == {"r1"}

UpdatePollIdArgs == {1, 2}

InitUpdate ==
  /\ polls = [id \in {1, 2} |->
                [user_id |-> IF id = 1 THEN "u1" ELSE "u2", question |-> Q1,
                 options |-> <<<<"a">>, <<"b">>>>]]
  /\ votes = {[poll_id |-> id, user_id |-> "u1", option_index |-> 0,
               created_at |-> 0] : id \in {1, 2}}
  /\ user_roles \in InitialAdminRoles
  /\ audit_logs = <<>>
  /\ nextPollId = 3
  /\ now = 0
  /\ calls = [c \in Procs |-> Idle]
  /\ rateLimit = <<>>
  /\ response = NoResponse
  /\ seen = [k \in Keys |-> NotSeen]
  /\ adminPage = [c \in Procs |-> NewPage]

NextUpdate ==
  \/ \E c \in UpdateProcs, g \in Sessions, id \in UpdatePollIdArgs,
        f \in PollForms : updatePoll(c, g, id, f.question, f.options)
  \/ \E c \in UpdateProcs : updatePoll_update(c)
  \/ \E c \in UpdateProcs : Finish(c)
  \/ \E actor \in Users, u \in Users : GrantRole(actor, u)
  \/ \E u \in Users : RevokeRole(u)

SpecUpdate == InitUpdate /\ [][NextUpdate]_vars

\* ------------------------------------------------------------------------
\* Properties

AlreadyVoted == "You have already voted on this poll"

VoteFailed == "Failed to submit vote. Please try again."

TooMany == "Too many votes. Please wait a moment."

PleaseLogIn == "Please log in to vote"

NotYourPoll == "You can only delete your own polls"

InvalidOption == {"Invalid option selection", "Invalid option selected"}

\* request c takes a step of the server action op it is running
Steps(c, op) == calls[c].op = op /\ calls'[c] # calls[c]

\* request c has returned from the server action op
Returned(c, op) == calls[c].op = op /\ calls[c].pc = "done"

\* C1: two concurrent submitVote calls of one user on one existing poll, with
\* indices in range: when one of them succeeds, the other one returns the
\* "already voted" error.
C1_OneSuccessRestAlreadyVoted ==
  \A c1 \in Procs, c2 \in Procs :
    ( /\ c1 # c2
      /\ Returned(c1, "submitVote") /\ Returned(c2, "submitVote")
      /\ calls[c1].user # Null /\ calls[c1].user = calls[c2].user
      /\ calls[c1].pollId = calls[c2].pollId
      /\ calls[c1].pollId \in DOMAIN polls
      /\ calls[c1].pollData.options = polls[calls[c1].pollId].options
      /\ calls[c2].pollData.options = polls[calls[c1].pollId].options
      /\ calls[c1].result = Null )
    => calls[c2].result = AlreadyVoted

\* C2: the ledger holds at most one vote for each (poll, authenticated voter).
C2_OneVotePerUserPerPoll ==
  \A v1 \in votes, v2 \in votes :
    (v1.poll_id = v2.poll_id /\ v1.user_id = v2.user_id /\ v1.user_id # Null)
      => v1 = v2

\* a second insert for the same (poll, user) was refused by the store
C2_Witness ==
  \E c1 \in Procs, c2 \in Procs :
    /\ c1 # c2
    /\ Returned(c1, "submitVote") /\ Returned(c2, "submitVote")
    /\ calls[c1].user = calls[c2].user /\ calls[c1].pollId = calls[c2].pollId
    /\ calls[c1].result = Null /\ calls[c2].result = VoteFailed
    /\ calls[c1].optionIndex # calls[c2].optionIndex
    /\ Cardinality(VotesOf(calls[c1].pollId, calls[c1].user)) = 1

\* C3: every step submitVote takes while its user has a vote on its poll
\* leaves the ledger as it is, with the one row of the user on the poll, and
\* never returns success; with an index in range the call gets to the step
\* that looks for the existing vote, and that step returns the "already
\* voted" error.
C3_RepeatIsAlreadyVoted ==
  [][\A c \in Procs :
       ( /\ Steps(c, "submitVote")
         /\ calls[c].user # Null
         /\ VotesOf(calls[c].pollId, calls[c].user) # {} )
       => /\ votes' = votes
          /\ Cardinality(VotesOf(calls[c].pollId, calls[c].user)) = 1
          /\ calls'[c].pc = "done" => calls'[c].result # Null
          /\ ( /\ calls[c].pc = "sv_poll"
               /\ calls[c].pollId \in DOMAIN polls
               /\ IntegerValue(calls[c].optionIndex)
                    < Len(polls[calls[c].pollId].options) )
               => calls'[c].pc = "sv_existing"
          /\ calls[c].pc = "sv_existing" =>
               calls'[c].pc = "done" /\ calls'[c].result = AlreadyVoted]_vars

\* a repeated vote for another option was refused; the one row of the user
\* carries the option chosen first
C3_Witness ==
  \E c \in Procs :
    /\ Returned(c, "submitVote")
    /\ calls[c].result = AlreadyVoted
    /\ \E v \in votes :
         /\ VotesOf(calls[c].pollId, calls[c].user) = {v}
         /\ v.option_index # IntegerValue(calls[c].optionIndex)

\* the argument is no index of a list of n options
OutsideRange(optionIndex, n) ==
  \/ optionIndex.type # "number"
  \/ optionIndex.twice < 0
  \/ optionIndex.twice % 2 # 0
  \/ optionIndex.twice >= 2 * n

\* C4: a submitVote call on an existing poll with an index outside the range
\* of the poll's options never gets past the bounds check (so it inserts no
\* row) and returns an invalid-option error.
C4_OutsideRangeRejected ==
  \A c \in Procs :
    ( /\ calls[c].op = "submitVote"
      /\ calls[c].pollId \in DOMAIN polls
      /\ OutsideRange(calls[c].optionIndex,
                      Len(polls[calls[c].pollId].options)) )
    => /\ calls[c].pc \in {"sv_poll", "done"}
       /\ calls[c].pc = "done" => calls[c].result \in InvalidOption

\* an index equal to the number of options was refused at the bounds check
C4_Witness ==
  \E c \in Procs :
    /\ Returned(c, "submitVote")
    /\ calls[c].pollId \in DOMAIN polls
    /\ calls[c].optionIndex.type = "number"
    /\ IntegerValue(calls[c].optionIndex) = Len(polls[calls[c].pollId].options)
    /\ calls[c].result = "Invalid option selected"

\* C5: every row that is inserted into votes has an index of an option of
\* its poll as the poll is at the insert.
C5_InsertedIndexInRange ==
  [][\A v \in votes' \ votes :
       /\ v.poll_id \in DOMAIN polls
       /\ v.option_index >= 0
       /\ v.option_index < Len(polls[v.poll_id].options)]_vars

\* an updatePoll shortened the options between the bounds check and the
\* insert of a vote, and the insert was refused
C5_Witness ==
  \E c \in Procs :
    /\ Returned(c, "submitVote")
    /\ calls[c].result = VoteFailed
    /\ calls[c].pollId \in DOMAIN polls
    /\ IntegerValue(calls[c].optionIndex) < Len(calls[c].pollData.options)
    /\ IntegerValue(calls[c].optionIndex)
         >= Len(polls[calls[c].pollId].options)
    /\ VotesOf(calls[c].pollId, calls[c].user) = {}

\* C6: a submitVote call without a user never gets to the ledger and never
\* returns success, and no row of votes has a null voter.
C6_AnonymousRejected ==
  /\ \A c \in Procs :
       (calls[c].op = "submitVote" /\ calls[c].user = Null)
         => /\ calls[c].pc \in {"sv_poll", "done"}
            /\ calls[c].pc = "done" => calls[c].result # Null
  /\ \A v \in votes : v.user_id # Null

\* an anonymous vote with a valid index on an existing poll was refused
C6_Witness ==
  \E c \in Procs :
    /\ Returned(c, "submitVote")
    /\ calls[c].user = Null
    /\ calls[c].pollId \in DOMAIN polls
    /\ ~ OutsideRange(calls[c].optionIndex, Len(polls[calls[c].pollId].options))
    /\ calls[c].result = PleaseLogIn

\* the argument is not a non-negative integer
NotNonNegativeInteger(optionIndex) ==
  \/ optionIndex.type # "number"
  \/ optionIndex.twice < 0
  \/ optionIndex.twice % 2 = 1

\* the votes of the user created in the 60 seconds up to now
VotesInWindow(user) ==
  {v \in votes : v.user_id = user /\ now - v.created_at <= VoteWindowMs}

\* C7, as stated: a returned submitVote call with a well-formed poll id was
\* rejected by the first gate that fails in the order anonymous, index not a
\* non-negative integer, poll not found, index >= option count.
C7_AnonymousGateFirst ==
  \A c \in Procs :
    (Returned(c, "submitVote") /\ PollIdLength(calls[c].pollId) >= 10) =>
      IF calls[c].user = Null
      THEN calls[c].result = PleaseLogIn
      ELSE IF NotNonNegativeInteger(calls[c].optionIndex)
      THEN calls[c].result = "Invalid option selection"
      ELSE IF calls[c].pollId \notin DOMAIN polls
      THEN calls[c].result = "Poll not found"
      ELSE IF calls[c].optionIndex.twice
                >= 2 * Len(polls[calls[c].pollId].options)
      THEN calls[c].result = "Invalid option selected"
      ELSE TRUE

\* C7, amended: submitVote applies its gates in the order malformed poll id,
\* index not a non-negative integer, poll not found, index >= option count,
\* anonymous, existing vote, vote rate, insert; each step returns the
\* rejection of the first of its gates that fails in the state it reads, and
\* goes on to the next gates when none fails.
C7_GateOrder ==
  [][\A c \in Procs :
       (calls'[c] # calls[c] /\ calls'[c].op = "submitVote") =>
         LET a == calls'[c]
             Rejected(msg) == a.pc = "done" /\ a.result = msg
         IN CASE calls[c].pc = "idle" ->
                   IF PollIdLength(a.pollId) < 10
                   THEN Rejected("Invalid poll ID")
                   ELSE IF NotNonNegativeInteger(a.optionIndex)
                   THEN Rejected("Invalid option selection")
                   ELSE a.pc = "sv_poll"
              [] calls[c].pc = "sv_poll" ->
                   IF a.pollId \notin DOMAIN polls
                   THEN Rejected("Poll not found")
                   ELSE IF a.optionIndex.twice
                             >= 2 * Len(polls[a.pollId].options)
                   THEN Rejected("Invalid option selected")
                   ELSE IF a.user = Null
                   THEN Rejected(PleaseLogIn)
                   ELSE a.pc = "sv_existing"
              [] calls[c].pc = "sv_existing" ->
                   IF \E v \in votes :
                        v.poll_id = a.pollId /\ v.user_id = a.user
                   THEN Rejected(AlreadyVoted)
                   ELSE a.pc = "sv_rate"
              [] calls[c].pc = "sv_rate" ->
                   IF Cardinality(VotesInWindow(a.user)) >= 5
                   THEN Rejected(TooMany)
                   ELSE a.pc = "sv_insert"
              [] calls[c].pc = "sv_insert" ->
                   \/ Rejected(VoteFailed) /\ votes' = votes
                   \/ Rejected(Null) /\ votes' # votes
              [] OTHER -> FALSE]_vars

\* an anonymous vote on a poll that does not exist was answered "not found"
C7_Witness ==
  \E c \in Procs :
    /\ Returned(c, "submitVote")
    /\ calls[c].user = Null
    /\ PollIdLength(calls[c].pollId) >= 10
    /\ calls[c].pollId \notin DOMAIN polls
    /\ calls[c].result = "Poll not found"

\* C8: the rate check rejects a call with the rate error, inserting nothing,
\* exactly when its user has 5 or more votes created in the last 60 seconds;
\* with fewer the call goes on to the insert, which stores the vote unless
\* the user has voted on the poll meanwhile.  No other step returns the rate
\* error.
C8_RateGate ==
  [][\A c \in Procs :
       Steps(c, "submitVote") =>
         /\ calls[c].pc = "sv_rate" =>
              IF Cardinality(VotesInWindow(calls[c].user)) >= 5
              THEN /\ calls'[c].pc = "done"
                   /\ calls'[c].result = TooMany
                   /\ votes' = votes
              ELSE calls'[c].pc = "sv_insert"
         /\ (calls'[c].pc = "done" /\ calls'[c].result = TooMany)
              => calls[c].pc = "sv_rate"
         /\ (calls[c].pc = "sv_insert"
               /\ VotesOf(calls[c].pollId, calls[c].user) = {})
              => /\ calls'[c].result = Null
                 /\ Cardinality(votes') = Cardinality(votes) + 1]_vars

\* a vote was refused for its rate while the user has exactly 5 votes, all
\* of them in the window
C8_Witness ==
  \E c \in Procs :
    /\ Returned(c, "submitVote")
    /\ calls[c].result = TooMany
    /\ Cardinality({v \in votes : v.user_id = calls[c].user}) = 5
    /\ Cardinality(VotesInWindow(calls[c].user)) = 5

\* C9: no user has more than 5 votes whose creation times lie within one
\* span of 60 seconds.
C9_AtMostFivePerWindow ==
  \A v0 \in votes :
    Cardinality({v \in votes : /\ v.user_id = v0.user_id
                               /\ v.created_at >= v0.created_at
                               /\ v.created_at - v0.created_at <= VoteWindowMs})
      <= 5

\* C10: no step of deletePoll by a user who neither owns the poll nor has
\* the admin role changes polls or votes, and when such a call returns, it
\* returns the authorization error.
C10_NonOwnerCannotDelete ==
  [][\A c \in Procs :
       ( /\ Steps(c, "deletePoll")
         /\ calls[c].user # Null
         /\ calls[c].pollId \in DOMAIN polls
         /\ polls[calls[c].pollId].user_id # calls[c].user
         /\ ~ HasAdminRow(calls[c].user) )
       => /\ polls' = polls
          /\ votes' = votes
          /\ calls'[c].pc = "done" => calls'[c].result = NotYourPoll]_vars

\* a user without the admin role was refused the delete of another user's
\* poll, which still exists with its votes
C10_Witness ==
  \E c \in Procs :
    /\ Returned(c, "deletePoll")
    /\ calls[c].result = NotYourPoll
    /\ calls[c].pollId \in DOMAIN polls
    /\ polls[calls[c].pollId].user_id # calls[c].user
    /\ ~ HasAdminRow(calls[c].user)
    /\ \E v \in votes : v.poll_id = calls[c].pollId

\* the caller of request c is signed in and is not the owner of its poll,
\* which exists
NotOwner(c) ==
  /\ calls[c].user # Null
  /\ calls[c].pollId \in DOMAIN polls
  /\ polls[calls[c].pollId].user_id # calls[c].user

\* C11: every step deletePoll takes for a caller who has the admin role, on
\* an existing poll of another user, brings the call forward, unless the role
\* query fails; its last step removes the poll and returns success.
C11_AdminDeletesAnyPoll ==
  [][\A c \in Procs :
       (Steps(c, "deletePoll") /\ NotOwner(c) /\ HasAdminRow(calls[c].user)) =>
         CASE calls[c].pc = "dp_poll" -> calls'[c].pc = "dp_role"
           [] calls[c].pc = "dp_role" ->
                calls'[c].roleError \/ calls'[c].pc = "dp_delete"
           [] calls[c].pc = "dp_delete" ->
                /\ calls[c].pollId \notin DOMAIN polls'
                /\ calls'[c].pc = "done"
                /\ calls'[c].result = Null
           [] OTHER -> TRUE]_vars

\* an admin has deleted the poll of another user
C11_Witness ==
  \E c \in Procs :
    /\ Returned(c, "deletePoll")
    /\ calls[c].result = Null
    /\ calls[c].pollData.user_id \notin {Null, calls[c].user}
    /\ HasAdminRow(calls[c].user)
    /\ calls[c].pollId \notin DOMAIN polls

\* C12: when deletePoll has returned success to an admin who deleted the
\* poll of another user, the audit log holds a record with the action
\* "poll_deleted" and the admin as its user.
C12_AdminDeleteAudited ==
  \A c \in Procs :
    (/\ Returned(c, "deletePoll")
     /\ calls[c].result = Null
     /\ calls[c].pollData.user_id \notin {Null, calls[c].user}) =>
      \E i \in DOMAIN audit_logs :
        /\ audit_logs[i].action = "poll_deleted"
        /\ audit_logs[i].user_id = calls[c].user

\* the messages with which createPoll, updatePoll and deletePoll refuse a
\* caller for who it is
Denials ==
  {NotYourPoll, "You must be logged in to create a poll.",
   "You must be logged in to update a poll.",
   "You must be logged in to delete a poll"}

\* C13: when createPoll, updatePoll or deletePoll has refused its caller,
\* the audit log holds a record with the action "authorization_denied".
C13_DenialAudited ==
  \A c \in Procs :
    (calls[c].pc = "done" /\ calls[c].result \in Denials) =>
      \E i \in DOMAIN audit_logs :
        audit_logs[i].action = "authorization_denied"

\* C14: when updatePoll has returned to a signed-in caller who neither owns
\* the poll, which exists, nor has the admin role, it has returned an error.
C14_UpdateByStrangerIsError ==
  \A c \in Procs :
    (Returned(c, "updatePoll") /\ NotOwner(c)
       /\ ~ HasAdminRow(calls[c].user)) =>
      calls[c].result # Null

\* the row createPoll inserts for request c
CreatedRow(c) ==
  [user_id |-> calls[c].user, question |-> sanitizeInput(calls[c].question),
   options |-> SanitizeAll(calls[c].options)]

RoleChecks == {"dp_role", "ca_role", "fa_role", "hd_role"}

\* the messages with which a caller without the admin role is refused
RoleDenials ==
  {NotYourPoll, "Access denied. Admin privileges required.",
   "Unauthorized access attempt",
   "Admin privileges required for this action"}

\* request c is refused at its role check
RoleDenied(c) ==
  /\ calls'[c].pc = "done"
  /\ calls'[c].result \in RoleDenials
  /\ polls' = polls
  /\ adminPage'[c].isAuthorized = adminPage[c].isAuthorized

\* C16: whenever the role query of deletePoll (for a caller who is not the
\* owner) or of isAdmin fails or finds no admin row of the user, the caller is
\* refused and no poll is deleted.
C16_RoleLookupFailsClosed ==
  [][\A c \in Procs :
       (/\ calls[c].pc \in RoleChecks
        /\ calls'[c] # calls[c]
        /\ calls'[c].roleError \/ ~ HasAdminRow(calls[c].user)) =>
         RoleDenied(c)]_vars

\* an admin has been refused because the role query failed
C16_Witness ==
  \E c \in Procs :
    /\ calls[c].pc = "done"
    /\ calls[c].roleError
    /\ HasAdminRow(calls[c].user)
    /\ calls[c].result \in RoleDenials

\* C17: a role check of fetchAllPolls, handleDelete or deletePoll made when
\* the user has no admin row refuses the caller, also when the page was
\* authorized or handleDelete had a positive answer before; and the delete
\* statement of a caller who is not the owner and has no admin row (any
\* longer) deletes nothing.
C17_RevocationTakesEffect ==
  [][\A c \in Procs :
       /\ (/\ calls[c].pc \in {"fa_role", "hd_role", "dp_role"}
           /\ calls'[c] # calls[c]
           /\ adminPage[c].isAuthorized \/ calls[c].hasAdminAccess
           /\ ~ HasAdminRow(calls[c].user)) => RoleDenied(c)
       /\ (/\ calls[c].pc = "dp_delete"
           /\ calls'[c] # calls[c]
           /\ NotOwner(c)
           /\ ~ HasAdminRow(calls[c].user)) => polls' = polls]_vars

\* on a page that was authorized, handleDelete has been refused, and so has
\* the deletePoll call another handleDelete got to make before the role was
\* revoked
C17_Witness ==
  \E c, d \in Procs :
    /\ adminPage[c].isAuthorized
    /\ calls[c].op = "handleDelete"
    /\ calls[c].pc = "done"
    /\ calls[c].result = "Admin privileges required for this action"
    /\ calls[d].op = "deletePoll"
    /\ calls[d].caller = "handleDelete"
    /\ calls[d].pc = "done"
    /\ calls[d].result = NotYourPoll
    /\ ~ calls[d].roleError
    /\ DOMAIN polls = 1..AdminPolls

\* the client with key k sends a request in this step
Sends(k) == seen'[k] # seen[k]

\* the request of this step is answered "Too many requests"
Limited == response'.status = 429

\* C18: of the requests a key sends within one window of 300,000 ms, which
\* begins with the key's first request or with its first request more than
\* 300,000 ms after the window began, the first 100 are let through and all
\* later ones are limited.
C18_First100PerWindow ==
  [][\A k \in Keys :
       Sends(k) => (Limited <=> seen'[k].n > maxRequests)]_vars

\* request 101 of a key within one window has been limited
C18_Witness ==
  \E k \in Keys :
    /\ seen[k].n = maxRequests + 1
    /\ response.status = 429
    /\ \A j \in Keys \ {k} : seen[j].n = 0

\* the key has no entry, or its entry's window is stale at the time of the
\* request
Stale(k) ==
  k \notin DOMAIN rateLimit \/ now - rateLimit[k].timestamp > 300000

\* C19, as stated: a request of a key without an entry or with a stale window
\* sets the entry to count = 1, windowStart = now and is allowed; any other
\* request increments count, and is limited when the count then exceeds 100.
C19_ResetOrIncrement ==
  [][\A k \in Keys :
       Sends(k) =>
         IF Stale(k)
         THEN rateLimit'[k] = [count |-> 1, timestamp |-> now] /\ ~ Limited
         ELSE /\ rateLimit'[k] =
                   [rateLimit[k] EXCEPT !.count = rateLimit[k].count + 1]
              /\ Limited <=> rateLimit'[k].count > 100]_vars

\* C19, amended: a request of a key without an entry or with a stale window
\* sets the entry to count = 1, windowStart = now and is allowed; any other
\* request is limited, leaving the entry as it is, when count has reached
\* 100, and otherwise increments count and is allowed.
C19_ResetOrCompare ==
  [][\A k \in Keys :
       Sends(k) =>
         IF Stale(k)
         THEN rateLimit'[k] = [count |-> 1, timestamp |-> now] /\ ~ Limited
         ELSE IF rateLimit[k].count >= 100
         THEN rateLimit'[k] = rateLimit[k] /\ Limited
         ELSE /\ rateLimit'[k] =
                   [rateLimit[k] EXCEPT !.count = rateLimit[k].count + 1]
              /\ ~ Limited]_vars

\* a stale window has been reset by a request, and the count of a window
\* has reached 100 by increments
C19_Witness ==
  /\ DOMAIN rateLimit = Keys
  /\ rateLimit["k1"] = [count |-> 1, timestamp |-> now]
  /\ now > 300000
  /\ seen["k1"].start = now
  /\ rateLimit["k2"].count = 100
  /\ rateLimit["k2"].timestamp = 0

Min(a, b) == IF a < b THEN a ELSE b

\* C20: the entry of a key counts every request of the key's window that
\* was let through, none lost and never more than 100, and the request of
\* one key leaves the entry of every other key as it is.
C20_AtomicPerKey ==
  /\ [](\A k \in DOMAIN rateLimit :
          /\ rateLimit[k].timestamp = seen[k].start
          /\ rateLimit[k].count = Min(seen[k].n, 100))
  /\ [][\A k \in Keys :
          Sends(k) =>
            \A j \in Keys \ {k} :
              /\ j \in DOMAIN rateLimit' <=> j \in DOMAIN rateLimit
              /\ j \in DOMAIN rateLimit => rateLimit'[j] = rateLimit[j]]_vars

\* one key has used up its window while the other has sent one request
C20_Witness ==
  /\ DOMAIN rateLimit = Keys
  /\ rateLimit["k1"].count = 100
  /\ seen["k1"].n > 100
  /\ rateLimit["k2"].count = 1
  /\ seen["k2"].n = 1
  /\ rateLimit["k2"].timestamp = rateLimit["k1"].timestamp

\* the request may change state: its method is none of GET, HEAD, OPTIONS
StateChanging(request) == request.method \notin {"GET", "HEAD", "OPTIONS"}

\* the request has the headers Origin and Host, its Origin is a URL, and the
\* host of that URL is not the Host
OriginMismatch(request) ==
  /\ Truthy(request.origin)
  /\ Truthy(request.host)
  /\ UrlHost(request.origin) \notin {"TypeError", request.host}

\* the request has no Origin or no Host, and no x-csrf-token
NoOriginNoToken(request) ==
  /\ ~ (Truthy(request.origin) /\ Truthy(request.host))
  /\ ~ Truthy(request.csrfToken)

\* C21: a request beyond the 100 of its key's window is answered 429 with a
\* Retry-After header, whatever its method and headers; a request within the
\* 100 that may change state and fails the origin check is answered 403;
\* neither leads to a call of getUser or to an access to the store.
C21_RateLimitThenOrigin ==
  [][\A k \in Keys :
       Sends(k) =>
         LET request == response'.request IN
           /\ seen'[k].n > maxRequests =>
                /\ response'.status = 429
                /\ response'.retryAfter # Null
                /\ response'.getUser = 0
           /\ (/\ seen'[k].n <= maxRequests
               /\ StateChanging(request)
               /\ OriginMismatch(request) \/ NoOriginNoToken(request)) =>
                /\ response'.status = 403
                /\ response'.getUser = 0
           /\ UNCHANGED <<polls, votes, user_roles, audit_logs, calls>>]_vars

\* a request beyond the limit that would also have failed the origin check
\* has been answered 429
C21_Witness ==
  /\ seen["k1"].n > maxRequests
  /\ response.status = 429
  /\ response.retryAfter = "300"
  /\ response.request.method = "POST"
  /\ response.request.origin = "https://evil.example"
  /\ response.request.host = "polly.app"

\* C22: a request that may change state and whose Origin is a URL of another
\* host than its Host header is answered 403 or 429 and never reaches
\* getUser, with or without an x-csrf-token header.
C22_OriginMismatchRejected ==
  [][\A k \in Keys :
       (/\ Sends(k)
        /\ StateChanging(response'.request)
        /\ OriginMismatch(response'.request)) =>
         /\ response'.status \in {403, 429}
         /\ response'.getUser = 0]_vars

\* a request with an x-csrf-token and the Origin of another host has been
\* answered 403
C22_Witness ==
  /\ response.status = 403
  /\ response.request.method = "POST"
  /\ response.request.origin = "https://evil.example"
  /\ response.request.host = "polly.app"
  /\ response.request.csrfToken = "token"

\* ------------------------------------------------------------------------
\* C23 .. C27: validation and sanitization of poll forms (SpecForms)

\* s is empty or of white space only
Blank(s) == \A i \in 1..Len(s) : IsWhitespace(s[i])

\* s holds "<script", "javascript:" or "data:" in some letter case
Forbidden(s) ==
  \E pat \in {<<"<", "s", "c", "r", "i", "p", "t">>,
              <<"j", "a", "v", "a", "s", "c", "r", "i", "p", "t", ":">>,
              <<"d", "a", "t", "a", ":">>} :
    \E i \in 1..Len(s) :
      /\ i + Len(pat) - 1 <= Len(s)
      /\ \A j \in 1..Len(pat) : LowerChar(s[i + j - 1]) = pat[j]

\* two options are equal once trimmed and put in lower case
SameIgnoringCase(a, b) == Trim(ToLowerCase(a)) = Trim(ToLowerCase(b))

\* the three rules of option i, in their order
OptionRules(options, i) ==
  <<[fails |-> Blank(options[i]),
     error |-> "Option " \o ToString(i) \o " cannot be empty"],
    [fails |-> Len(options[i]) > 200,
     error |-> "Option " \o ToString(i) \o " must be 200 characters or less"],
    [fails |-> Forbidden(options[i]),
     error |-> "Option " \o ToString(i) \o " contains invalid content"]>>

\* the rules in the order of the claim, each with its error
Rules(question, options) ==
  <<[fails |-> Blank(question), error |-> "Question is required"],
    [fails |-> Len(question) > 500,
     error |-> "Question must be 500 characters or less"],
    [fails |-> Forbidden(question),
     error |-> "Question contains invalid content"],
    [fails |-> Len(options) < 2, error |-> "At least 2 options are required"],
    [fails |-> Len(options) > 10, error |-> "Maximum 10 options allowed"]>>
  \o [k \in 1..(3 * Len(options)) |->
        OptionRules(options, ((k - 1) \div 3) + 1)[((k - 1) % 3) + 1]]
  \o <<[fails |-> \E i, j \in 1..Len(options) :
                    i < j /\ SameIgnoringCase(options[i], options[j]),
        error |-> "All options must be unique"]>>

\* the error of the first rule that fails, Null when none fails
FirstFailingRule(question, options) ==
  LET rules == Rules(question, options)
      failing == {k \in 1..Len(rules) : rules[k].fails}
  IN IF failing = {} THEN Null
     ELSE rules[CHOOSE k \in failing : \A j \in failing : k <= j].error

RuleErrors(question, options) ==
  {Rules(question, options)[k].error :
     k \in 1..Len(Rules(question, options))}

\* the call of client c has handed its form to validatePollInput
Validated(c) ==
  \/ calls[c].op = "createPoll"
  \/ calls[c].op = "updatePoll" /\ ~ InvalidPollId(calls[c].pollId)

\* C23: validatePollInput returns the error of the first failing rule, in
\* the order question non-empty, question length, forbidden pattern in the
\* question, at least 2 options, at most 10 options, per option in index
\* order non-empty / length / forbidden pattern, uniqueness ignoring case and
\* outer spaces; it returns null exactly when no rule fails: a call whose form
\* fails a rule ends with the error of the first failing rule, a call whose
\* form fails none never ends with an error of a rule.
C23_FirstFailingRuleWins ==
  \A c \in Procs :
    Validated(c) =>
      LET e == FirstFailingRule(calls[c].question, calls[c].options) IN
        IF e # Null
        THEN calls[c].pc = "done" /\ calls[c].result = e
        ELSE calls[c].result
               \notin RuleErrors(calls[c].question, calls[c].options)

\* a form with a question too long and a single option has been answered with
\* the error of the question
C23_Witness ==
  \E c \in Procs :
    /\ calls[c].op = "createPoll"
    /\ calls[c].pc = "done"
    /\ Len(calls[c].question) > 500
    /\ Len(calls[c].options) < 2
    /\ calls[c].result = "Question must be 500 characters or less"

\* C24: sanitizeInput is idempotent: sanitizing the sanitized question or
\* option of a form gives the sanitized question or option again.
C24_SanitizeIdempotent ==
  \A c \in Procs :
    calls[c].op \in {"createPoll", "updatePoll"} =>
      /\ sanitizeInput(sanitizeInput(calls[c].question))
           = sanitizeInput(calls[c].question)
      /\ \A i \in 1..Len(calls[c].options) :
           sanitizeInput(sanitizeInput(calls[c].options[i]))
             = sanitizeInput(calls[c].options[i])

\* C25: every stored poll has, in its stored values, between 2 and 10
\* options, a question of at most 500 characters, options that are not empty
\* and of at most 200 characters, and options pairwise distinct ignoring case.
C25_StoredPollsValid ==
  \A id \in DOMAIN polls :
    LET p == polls[id] IN
      /\ Len(p.options) >= 2
      /\ Len(p.options) <= 10
      /\ Len(p.question) <= 500
      /\ \A i \in 1..Len(p.options) :
           p.options[i] # <<>> /\ Len(p.options[i]) <= 200
      /\ \A i, j \in 1..Len(p.options) :
           i # j => ToLowerCase(p.options[i]) # ToLowerCase(p.options[j])

BackendMessages == {AuthErrorMessage, PollsCheckMessage}

\* C27: no operation returns a message of the storage backend or of the auth
\* backend verbatim.
C27_NoBackendMessageVerbatim ==
  \A c \in Procs :
    calls[c].pc = "done" => calls[c].result \notin BackendMessages

\* C28: no request leads to a thrown fault in the request gate: no request is
\* answered by the 500 of an exception that updateSession does not catch.
C28_NoThrownFault == response.status # 500

\* ------------------------------------------------------------------------
\* C29, C30: votes are only removed with their poll, retries change nothing

\* C29: an existing vote row is never modified and is removed only together
\* with its poll: a step keeps every vote as it is, or deletes the poll the
\* vote is of; the steps of createPoll, updatePoll, submitVote and of a
\* deletePoll call that ends in an error keep all votes; when a poll is
\* deleted no vote of that poll remains.
C29_VotesFrame ==
  [][/\ \A v \in votes :
          \/ v \in votes'
          \/ v.poll_id \in DOMAIN polls /\ v.poll_id \notin DOMAIN polls'
     /\ \A id \in DOMAIN polls \ DOMAIN polls' :
          \A v \in votes' : v.poll_id # id
     /\ \A c \in Procs :
          (/\ calls'[c] # calls[c]
           /\ \/ calls'[c].op \in {"createPoll", "updatePoll", "submitVote"}
              \/ /\ calls'[c].op = "deletePoll"
                 /\ calls'[c].pc = "done"
                 /\ calls'[c].result # Null)
          => votes \subseteq votes']_vars

\* a vote on a poll has succeeded, the deletePoll of that poll has succeeded,
\* and neither the poll nor the vote is left
C29_Witness ==
  \E c, d \in Procs :
    /\ calls[c].op = "submitVote"
    /\ calls[c].pc = "done"
    /\ calls[c].result = Null
    /\ calls[d].op = "deletePoll"
    /\ calls[d].pc = "done"
    /\ calls[d].result = Null
    /\ calls[d].pollId = calls[c].pollId
    /\ calls[c].pollId \notin DOMAIN polls
    /\ votes = {}

\* the call of client c has been applied and its effect is in place: its
\* vote is stored, the poll it deleted is gone, the values it wrote are the
\* poll's
Applied(c) ==
  /\ calls[c].pc = "done"
  /\ calls[c].result = Null
  /\ \/ /\ calls[c].op = "submitVote"
        /\ \E v \in votes :
             /\ v.poll_id = calls[c].pollId
             /\ v.user_id = calls[c].user
             /\ v.option_index = IntegerValue(calls[c].optionIndex)
     \/ /\ calls[c].op = "deletePoll"
        /\ calls[c].pollId \notin DOMAIN polls
     \/ /\ calls[c].op = "updatePoll"
        /\ calls[c].pollId \in DOMAIN polls
        /\ polls[calls[c].pollId].user_id = calls[c].user
        /\ polls[calls[c].pollId].question = sanitizeInput(calls[c].question)
        /\ polls[calls[c].pollId].options = SanitizeAll(calls[c].options)

\* the call of client d is the call of client c again: the same operation
\* with the same arguments by the same user
RetryOf(c, d) ==
  /\ c # d
  /\ calls[d].op = calls[c].op
  /\ calls[d].user = calls[c].user
  /\ calls[d].pollId = calls[c].pollId
  /\ calls[d].optionIndex = calls[c].optionIndex
  /\ calls[d].question = calls[c].question
  /\ calls[d].options = calls[c].options

Live(map) ==
  [k \in {j \in DOMAIN map : now - map[j].timestamp <= 300000} |-> map[k]]

\* the window of the key's requests, counted without regard to sweeps, is
\* still open
WindowOpen(k) == seen[k].n > 0 /\ now - seen[k].start <= 300000

\* C31: the sweep removes exactly the entries whose window start is more than
\* one window duration in the past, and callers cannot see it: whenever
\* sweeps run, a key whose window is still open has its entry, with the count
\* of its requests, and every request is limited exactly when the requests of
\* its key's window, counted without regard to sweeps, exceed 100.
C31_SweepInvisible ==
  /\ [][(rateLimit' # rateLimit /\ seen' = seen) =>
          rateLimit' = Live(rateLimit)]_vars
  /\ [](\A k \in Keys :
          WindowOpen(k) =>
            /\ k \in DOMAIN rateLimit
            /\ rateLimit[k] =
                 [count |-> Min(seen[k].n, 100), timestamp |-> seen[k].start])
  /\ [][\A k \in Keys :
          Sends(k) =>
            (response'.status = 429 <=> seen'[k].n > 100)]_vars

\* the sweep has removed the entry of a key that had been limited, while
\* the entry of the other key, exactly one window old, is kept
C31_Witness ==
  /\ "k1" \notin DOMAIN rateLimit
  /\ seen["k1"].n > 100
  /\ "k2" \in DOMAIN rateLimit
  /\ now - rateLimit["k2"].timestamp = 300000

\* ------------------------------------------------------------------------
\* C36, C37: the entries of the rate limit map and the Retry-After header

\* C36: every entry of the rate limit map has a count from 1 to 100, and a
\* request that is answered as limited leaves the entry of its key, count and
\* window start, as it is.
C36_CountBoundsAndRejectFrame ==
  /\ [](\A k \in DOMAIN rateLimit :
          rateLimit[k].count >= 1 /\ rateLimit[k].count <= 100)
  /\ [][\A k \in Keys :
          (Sends(k) /\ response'.status = 429) =>
            /\ k \in DOMAIN rateLimit
            /\ k \in DOMAIN rateLimit'
            /\ rateLimit'[k] = rateLimit[k]]_vars

\* a key has been limited twice in a window that began one window duration
\* ago, and its entry still has count 100 and the start of the window
C36_Witness ==
  /\ response.status = 429
  /\ seen["k1"].n = 102
  /\ seen["k2"].n = 0
  /\ now = 300000
  /\ rateLimit["k1"] = [count |-> 100, timestamp |-> 0]

\* C37: when a request of a key is answered 429 at time t, the next request
\* of that key, sent at t + 300 seconds or later, is not limited.  (Where no
\* other key has sent a request, the latest response is the one to the key's
\* previous request, and its X-RateLimit-Reset header is t + 300 seconds.)
C37_RetryAfterSufficient ==
  [][\A k \in Keys :
       (/\ Sends(k)
        /\ \A j \in Keys \ {k} : seen[j].n = 0
        /\ response.status = 429
        /\ response.retryAfter = "300"
        /\ now >= response.rateLimitReset)
       => response'.status # 429]_vars

\* ------------------------------------------------------------------------
\* C32, C33: role rows and registration (SpecAuth)

\* C32: no principal can make itself admin: no step of createPoll,
\* updatePoll, deletePoll, submitVote, login or register inserts, changes or
\* removes a role row; a role row is inserted only by a principal that holds
\* the admin role at the time of the insert; there is at most one row per
\* principal and role.
C32_NoSelfEscalation ==
  /\ [][(calls' # calls) => user_roles' = user_roles]_vars
  /\ [][\A row \in user_roles' \ user_roles :
          \E admin \in Users :
            /\ \E ur \in user_roles :
                 ur.user_id = admin /\ ur.role = "admin"
            /\ row.granted_by = admin]_vars
  /\ [](\A ur1, ur2 \in user_roles :
          (ur1.user_id = ur2.user_id /\ ur1.role = ur2.role) => ur1 = ur2)

\* an admin has granted the role to another user, and a registration has
\* succeeded, which has given no role to anyone else
C32_Witness ==
  /\ user_roles = {RoleRow("u2", "admin", Null), RoleRow("u1", "admin", "u2")}
  /\ calls["r1"].op = "register"
  /\ calls["r1"].pc = "done"
  /\ calls["r1"].result = Null

\* the characters of the classes a password must have
LowerCaseLetters == {LowerCase[i] : i \in 1..26}

UpperCaseLetters == {UpperCase[i] : i \in 1..26}

DigitCharacters == {"0", "1", "2", "3", "4", "5", "6", "7", "8", "9"}

SpecialCharacters ==
  {"!", "@", "#", "$", "%", "^", "&", "*", "(", ")", "_", "+", "-", "=",
   "[", "]", "{", "}", ";", "'", ":", "\"", "\\", "|", ",", ".", "<", ">",
   "/", "?"}

HasOneOf(s, chars) == \E i \in 1..Len(s) : s[i] \in chars

\* the rules of a password in the order of the claim, each with its message
PasswordRules(password) ==
  <<[fails |-> Len(password) < 8,
     error |-> "Password must be at least 8 characters long"],
    [fails |-> Len(password) > 128,
     error |-> "Password must be less than 128 characters"],
    [fails |-> ~ HasOneOf(password, LowerCaseLetters),
     error |-> "Password must contain at least one lowercase letter"],
    [fails |-> ~ HasOneOf(password, UpperCaseLetters),
     error |-> "Password must contain at least one uppercase letter"],
    [fails |-> ~ HasOneOf(password, DigitCharacters),
     error |-> "Password must contain at least one number"],
    [fails |-> ~ HasOneOf(password, SpecialCharacters),
     error |-> "Password must contain at least one special character"],
    [fails |-> ToLowerCase(password) \in commonPasswords,
     error |->
       "This password is too common. Please choose a stronger password"]>>

\* the message of the first rule the password fails, Null when it fails none
FirstFailingPasswordRule(password) ==
  LET rules == PasswordRules(password)
      failing == {k \in 1..Len(rules) : rules[k].fails}
  IN IF failing = {} THEN Null
     ELSE rules[CHOOSE k \in failing : \A j \in failing : k <= j].error

\* the email has an "@" and at most 254 characters once trimmed, the name is
\* not blank and has at most 100 characters
EmailAndNameValid(email, name) ==
  /\ \E i \in 1..Len(email) : email[i] = "@"
  /\ Len(Trim(email)) <= 254
  /\ ~ Blank(name)
  /\ Len(name) <= 100

\* client c starts a register call in this step
StartsRegister(c) == calls[c].pc = "idle" /\ calls'[c].op = "register"

\* C33, as stated: register calls the account-creation backend only when the
\* password passes all the rules; otherwise it returns the message of the
\* first failing rule and no account is created.
C33_PasswordRuleFirst ==
  [][\A c \in Procs :
       StartsRegister(c) =>
         LET e == FirstFailingPasswordRule(calls'[c].password) IN
           IF e = Null
           THEN calls'[c].pc = "rg_signUp" \/ calls'[c].pc = "done"
           ELSE calls'[c].pc = "done" /\ calls'[c].result = e]_vars

\* C33, amended: register calls the account-creation backend only when the
\* password passes all the rules; otherwise no account is created, and the
\* call returns the message of the first failing rule when the email and the
\* name are valid, and the error of the email or of the name when they are
\* not.  With a valid email, name and password the backend is called.
C33_PasswordRuleAfterEmailAndName ==
  [][\A c \in Procs :
       StartsRegister(c) =>
         LET e == FirstFailingPasswordRule(calls'[c].password) IN
           /\ calls'[c].pc \in {"rg_signUp", "done"}
           /\ calls'[c].pc = "rg_signUp" <=>
                (e = Null /\ EmailAndNameValid(calls'[c].email, calls'[c].name))
           /\ (e # Null /\ EmailAndNameValid(calls'[c].email, calls'[c].name))
                => calls'[c].result = e
           /\ ~ EmailAndNameValid(calls'[c].email, calls'[c].name)
                => calls'[c].result \in
                     {"Please enter a valid email address", "Name is required",
                      "Name must be less than 100 characters"}]_vars

\* a password of 129 characters without capital, digit and special character
\* has been refused with the message of the length, and no account made
C33_Witness ==
  \E c \in Procs :
    /\ calls[c].op = "register"
    /\ calls[c].pc = "done"
    /\ Len(calls[c].password) = 129
    /\ EmailAndNameValid(calls[c].email, calls[c].name)
    /\ calls[c].result = "Password must be less than 128 characters"

\* ------------------------------------------------------------------------
\* C34, C35: the owner's delete, and updates by others

\* C34: deletePoll compares the caller with the owner first and queries the
\* role store only when the caller is not the owner: a call that has read a
\* poll of its caller goes on to the delete without a role query, a role
\* query is only made for a poll read as another user's, and the owner's
\* delete removes the poll and succeeds, whatever the role rows are.
C34_OwnerDeleteWithoutRoleQuery ==
  [][\A c \in Procs :
       (calls[c].op = "deletePoll" /\ calls'[c] # calls[c]) =>
         /\ (/\ calls[c].pc = "dp_poll"
             /\ calls[c].pollId \in DOMAIN polls
             /\ polls[calls[c].pollId].user_id = calls[c].user)
            => calls'[c].pc = "dp_delete"
         /\ calls[c].pc = "dp_role"
            => calls[c].pollData.user_id # calls[c].user
         /\ (/\ calls[c].pc = "dp_delete"
             /\ calls[c].pollData.user_id = calls[c].user
             /\ calls[c].pollId \in DOMAIN polls)
            => /\ calls[c].pollId \notin DOMAIN polls'
               /\ calls'[c].pc = "done"
               /\ calls'[c].result = Null
               /\ ~ calls'[c].roleError]_vars

\* a user without the admin role has deleted its own poll
C34_Witness ==
  \E c \in Procs :
    /\ calls[c].op = "deletePoll"
    /\ calls[c].pc = "done"
    /\ calls[c].result = Null
    /\ calls[c].pollData.user_id = calls[c].user
    /\ ~ HasAdminRow(calls[c].user)
    /\ calls[c].pollId \notin DOMAIN polls

\* C35: updatePoll never changes a poll its caller does not own, admin or
\* not: no step of an updatePoll call changes the votes, the set of polls or
\* the owner of a poll, and the only poll whose question and options a step
\* may change is the poll of the call, when its owner is the caller.
C35_UpdateOnlyOwnPoll ==
  [][\A c \in Procs :
       (calls'[c].op = "updatePoll" /\ calls'[c] # calls[c]) =>
         /\ votes' = votes
         /\ DOMAIN polls' = DOMAIN polls
         /\ \A id \in DOMAIN polls :
              /\ polls'[id].user_id = polls[id].user_id
              /\ (id # calls'[c].pollId \/ polls[id].user_id # calls'[c].user)
                 => polls'[id] = polls[id]]_vars

\* an admin has sent an update for the poll of another user, with other
\* options than the poll has; the call has returned and the poll is as before
C35_Witness ==
  \E c \in Procs :
    /\ calls[c].op = "updatePoll"
    /\ calls[c].pc = "done"
    /\ calls[c].result = Null
    /\ HasAdminRow(calls[c].user)
    /\ polls[calls[c].pollId].user_id # calls[c].user
    /\ Len(calls[c].options) = 3
    /\ polls[calls[c].pollId].options = <<<<"a">>, <<"b">>>>
    /\ \E id \in DOMAIN polls : Len(polls[id].options) = 3

\* ------------------------------------------------------------------------
\* C38: requests without an Origin or Host header

AllCompleted == \A c \in Procs : calls[c].pc = "idle"

\* C39: once the handlers of the admin page have all completed, the page
\* displays no poll that a delete removed (ids are not given out again, so a
\* displayed id that is no poll any more is a poll whose deletion succeeded).
C39_NoDeletedPollDisplayed ==
  AllCompleted => adminPage[ThePage].polls \subseteq DOMAIN polls
====
